---- MODULE Spec2Model ----
(***************************************************************************)
(* A model of the chain helpers of privy-sdk-go: the per-chain Transfer    *)
(* operations (wallet lookup, chain-state query, build, hash, raw_sign,    *)
(* signature reassembly, broadcast) and the pure functions they use        *)
(* (Bitcoin coin selection, transaction building, DER encoding).           *)
(***************************************************************************)
EXTENDS Integers, Sequences, FiniteSets, TLC

VARIABLES
    pc,          \* position of the modelled call: "select", "start", a step label, "done"
    chain,       \* the chain package whose Helper.Transfer runs
    amountArg,   \* Transfer's amount argument, a string
    destination, \* Transfer's destination argument
    calls,       \* the external calls issued so far, in order, each with its response
    wallet,      \* the wallet the Privy lookup returned
    result,      \* what Transfer returned: a transaction id, an error, or a panic
    utxos,       \* bitcoin: the UTXO list handed to selectUTXOs
    amountSats,  \* bitcoin: the parsed amount (int64)
    feeRate,     \* bitcoin: Helper.feeRate (int64)
    sel,         \* bitcoin: what selectUTXOs returned
    tx,          \* the transaction built by this call (chain specific)
    signIdx,     \* bitcoin: the input to sign next (0-based, as in the code)
    chainState,  \* what the chain-state queries returned (nonce, block hash, ...)
    arg,         \* the arguments of a function or operation that is called on its own
    ret,         \* what that function or operation returned
    helper       \* the Helper and its Client, where several calls share them

vars == <<pc, chain, amountArg, destination, calls, wallet, result,
          utxos, amountSats, feeRate, sel, tx, signIdx, chainState, arg, ret, helper>>

(***************************************************************************)
(* Go's int64.  TLC's integers are 32 bits wide, so an int64 is a sequence *)
(* of four 16-bit limbs, least significant first, in two's complement.     *)
(* Arithmetic wraps modulo 2^64 exactly as Go's does.  The same operators  *)
(* work on any number of limbs; six limbs (96 bits) hold every sum and     *)
(* product of the int64 values below exactly and serve as the mathematical *)
(* integers the claims speak about.                                        *)
(***************************************************************************)
LimbBase == 256 * 256

Int64Limbs == 4

WideLimbs == Int64Limbs + 2

Zero(n) == [i \in 1..n |-> 0]

IsNeg(a) == a[Len(a)] >= LimbBase \div 2

RECURSIVE AddFrom(_, _, _, _)
AddFrom(a, b, i, carry) ==
    IF i > Len(a) THEN <<>>
    ELSE LET s == a[i] + b[i] + carry
         IN  <<s % LimbBase>> \o AddFrom(a, b, i + 1, s \div LimbBase)

\* a + b, wrapping modulo 2^(16 * Len(a))
Add(a, b) == AddFrom(a, b, 1, 0)

Not(a) == [i \in 1..Len(a) |-> LimbBase - 1 - a[i]]

Neg(a) == Add(Not(a), [i \in 1..Len(a) |-> IF i = 1 THEN 1 ELSE 0])

\* a - b, wrapping
Sub(a, b) == Add(a, Neg(b))

RECURSIVE MulFrom(_, _, _, _)
MulFrom(a, m, i, carry) ==
    IF i > Len(a) THEN <<>>
    ELSE LET p == a[i] * m + carry
         IN  <<p % LimbBase>> \o MulFrom(a, m, i + 1, p \div LimbBase)

\* a * m for a small non-negative m (m < 2^15), wrapping; in two's complement
\* this is the wrapped signed product
MulSmall(a, m) == MulFrom(a, m, 1, 0)

RECURSIVE ULtFrom(_, _, _)
ULtFrom(a, b, i) ==
    IF i = 0 THEN FALSE
    ELSE IF a[i] # b[i] THEN a[i] < b[i]
    ELSE ULtFrom(a, b, i - 1)

\* signed a < b
Lt(a, b) ==
    IF IsNeg(a) # IsNeg(b) THEN IsNeg(a) ELSE ULtFrom(a, b, Len(a))

\* signed a >= b
Ge(a, b) == ~Lt(a, b)

\* sign extension to n limbs: the same integer, more room
Ext(a, n) ==
    [i \in 1..n |-> IF i <= Len(a) THEN a[i]
                    ELSE IF IsNeg(a) THEN LimbBase - 1 ELSE 0]

\* the n-limb value of a TLC integer v, |v| < 2^31
FromInt(v, n) ==
    LET mag == IF v >= 0 THEN v ELSE 0 - v
        pos == [i \in 1..n |-> IF i = 1 THEN mag % LimbBase
                               ELSE IF i = 2 THEN mag \div LimbBase ELSE 0]
    IN  IF v >= 0 THEN pos ELSE Neg(pos)

I64(v) == FromInt(v, Int64Limbs)

\* math.MaxInt64 = 2^63 - 1
MaxInt64 == [i \in 1..Int64Limbs |-> IF i = Int64Limbs THEN LimbBase \div 2 - 1
                                     ELSE LimbBase - 1]

(***************************************************************************)
(* Strings are sequences of one-character strings, byte strings sequences  *)
(* of 0..255.                                                              *)
(***************************************************************************)
DecDigits == <<"0", "1", "2", "3", "4", "5", "6", "7", "8", "9">>

HexLower == DecDigits \o <<"a", "b", "c", "d", "e", "f">>

HexUpper == DecDigits \o <<"A", "B", "C", "D", "E", "F">>

Range(s) == {s[i] : i \in 1..Len(s)}

IsDigit(c) == c \in Range(DecDigits)

DigitVal(c) == (CHOOSE i \in 1..10 : DecDigits[i] = c) - 1

IsHexChar(c) == c \in Range(HexLower) \cup Range(HexUpper)

HexVal(c) ==
    IF c \in Range(HexLower) THEN (CHOOSE i \in 1..16 : HexLower[i] = c) - 1
    ELSE (CHOOSE i \in 1..16 : HexUpper[i] = c) - 1

Tail2(s) == SubSeq(s, 3, Len(s))

\* strings.TrimPrefix(s, "0x")
TrimPrefix0x(s) ==
    IF Len(s) >= 2 /\ s[1] = "0" /\ s[2] = "x" THEN Tail2(s) ELSE s

\* hex.DecodeString: an error on a character that is no hex digit and on an odd length
HexDecodeString(s) ==
    IF (\E i \in 1..Len(s) : ~IsHexChar(s[i])) \/ Len(s) % 2 = 1
    THEN [err |-> TRUE, bytes |-> <<>>]
    ELSE [err |-> FALSE,
          bytes |-> [i \in 1..(Len(s) \div 2) |->
                        16 * HexVal(s[2 * i - 1]) + HexVal(s[2 * i])]]

decodeHex(s) == HexDecodeString(TrimPrefix0x(s))

\* hex.EncodeToString
HexEncodeToString(b) ==
    [i \in 1..(2 * Len(b)) |->
        IF i % 2 = 1 THEN HexLower[(b[(i + 1) \div 2] \div 16) + 1]
        ELSE HexLower[(b[i \div 2] % 16) + 1]]

Hex0x(b) == <<"0", "x">> \o HexEncodeToString(b)

(***************************************************************************)
(* strconv.ParseInt(s, 10, 64) and strconv.ParseUint(s, 10, 64).  The      *)
(* value is accumulated in WideLimbs limbs, which hold every decimal       *)
(* string of up to 28 characters exactly.                                  *)
(***************************************************************************)
RECURSIVE DecimalValue(_, _, _)
DecimalValue(s, n, limbs) ==
    IF n = 0 THEN Zero(limbs)
    ELSE Add(MulSmall(DecimalValue(s, n - 1, limbs), 10),
             FromInt(DigitVal(s[n]), limbs))

AllDigits(s) == Len(s) > 0 /\ \A i \in 1..Len(s) : IsDigit(s[i])

\* 2^63 in WideLimbs limbs
TwoTo63 == [i \in 1..WideLimbs |-> IF i = Int64Limbs THEN LimbBase \div 2 ELSE 0]

\* 2^64 in WideLimbs limbs
TwoTo64 == [i \in 1..WideLimbs |-> IF i = Int64Limbs + 1 THEN 1 ELSE 0]

ParseUint(s) ==
    LET v == DecimalValue(s, Len(s), WideLimbs)
    IN  IF ~AllDigits(s) \/ Ge(v, TwoTo64)
        THEN [err |-> TRUE, val |-> I64(0)]
        ELSE [err |-> FALSE, val |-> SubSeq(v, 1, Int64Limbs)]

ParseInt(s) ==
    LET signed == Len(s) > 0 /\ s[1] \in {"+", "-"}
        neg    == Len(s) > 0 /\ s[1] = "-"
        body   == IF signed THEN Tail(s) ELSE s
        un     == DecimalValue(body, Len(body), WideLimbs)
    IN  IF ~AllDigits(body) THEN [err |-> TRUE, val |-> I64(0)]
        ELSE IF ~neg /\ Ge(un, TwoTo63) THEN [err |-> TRUE, val |-> I64(0)]
        ELSE IF neg /\ Lt(TwoTo63, un) THEN [err |-> TRUE, val |-> I64(0)]
        ELSE [err |-> FALSE,
              val |-> IF neg THEN Neg(SubSeq(un, 1, Int64Limbs))
                      ELSE SubSeq(un, 1, Int64Limbs)]

(***************************************************************************)
(* bitcoin: DER encoding of a signature                                    *)
(***************************************************************************)
RECURSIVE StripLeadingZeros(_)
StripLeadingZeros(v) ==
    IF Len(v) > 1 /\ v[1] = 0 THEN StripLeadingZeros(Tail(v)) ELSE v

\* leading zeros stripped, the sign-bit padding forgotten
canonicalizeIntNoPad(b) == StripLeadingZeros(b)

canonicalizeInt(b) ==
    LET v == StripLeadingZeros(b)
    IN  IF Len(v) > 0 /\ v[1] >= 128 THEN <<0>> \o v ELSE v

\* the INTEGER length bytes taken from the raw r and s
derEncodeSignatureRawLen(r, s) ==
    LET rEnc == canonicalizeInt(r)
        sEnc == canonicalizeInt(s)
        totalLen == 2 + Len(rEnc) + 2 + Len(sEnc)
    IN  <<48, totalLen % 256>> \o <<2, Len(r) % 256>> \o rEnc
            \o <<2, Len(s) % 256>> \o sEnc

derEncodeSignature(r, s) ==
    LET rEnc == canonicalizeInt(r)
        sEnc == canonicalizeInt(s)
        totalLen == 2 + Len(rEnc) + 2 + Len(sEnc)
    IN  <<48, totalLen % 256>> \o <<2, Len(rEnc) % 256>> \o rEnc
            \o <<2, Len(sEnc) % 256>> \o sEnc

(***************************************************************************)
(* bitcoin: selectUTXOs                                                    *)
(***************************************************************************)
TxOverheadVBytes == 11

InputVBytes == 68

OutputVBytes == 31

EstimatedOutputs == 2

\* the size estimate that forgets the change output
VSizeOneOutput(n) == TxOverheadVBytes + InputVBytes * n + OutputVBytes

\* vSize := int64(11 + 68*len(selected) + 31*2)
VSize(n) == TxOverheadVBytes + InputVBytes * n + OutputVBytes * EstimatedOutputs

SelectFailed == [err |-> TRUE, selected |-> <<>>, totalInput |-> I64(0), fee |-> I64(0)]

RECURSIVE selectFrom(_, _, _, _, _)
selectFrom(us, amount, rate, n, total) ==
    IF n > Len(us) THEN SelectFailed
    ELSE LET totalInput == Add(total, us[n].Value)
             fee        == MulSmall(rate, VSize(n))
         IN  IF Ge(totalInput, Add(amount, fee))
             THEN [err |-> FALSE, selected |-> SubSeq(us, 1, n),
                   totalInput |-> totalInput, fee |-> fee]
             ELSE selectFrom(us, amount, rate, n + 1, totalInput)

selectUTXOs(us, amount, rate) == selectFrom(us, amount, rate, 1, I64(0))

(***************************************************************************)
(* Inputs of the coin-selection specification.                             *)
(***************************************************************************)
MaxUTXOs == 2

UTXOValues == {I64(100), I64(1500), I64(100000)}

UTXOSamples ==
    UNION {[1..n -> {[TxID |-> <<"a", "a">>, Vout |-> 0, Value |-> v] : v \in UTXOValues}]
           : n \in 0..MaxUTXOs}

AmountSamples == {I64(0), I64(90), I64(50000), I64(200000), MaxInt64}

FeeRateSamples == {I64(1), I64(10)}

NoResult == [status |-> "none", err |-> "", txid |-> ""]

NoWallet == [Address |-> "", PublicKey |-> <<>>]

NoTx == [TxIn |-> <<>>, TxOut |-> <<>>]

NoState == [none |-> TRUE]

\* the calls of the other specifications run one at a time on a Helper of their own
NoHelper == [none |-> TRUE]

NoArg == [none |-> TRUE]

NoRet == [none |-> TRUE]

transferVars ==
    <<chain, amountArg, destination, calls, wallet, result, tx, signIdx, chainState, helper>>

\* no Transfer is running (the pure-function specifications)
NoTransfer ==
    /\ chain = "none"
    /\ amountArg = <<>>
    /\ destination = ""
    /\ calls = <<>>
    /\ wallet = NoWallet
    /\ result = NoResult
    /\ tx = NoTx
    /\ signIdx = 0
    /\ chainState = NoState
    /\ helper = NoHelper

NoSelection == [err |-> FALSE, selected |-> <<>>, totalInput |-> I64(0), fee |-> I64(0)]

InitSelect ==
    /\ pc = "select"
    /\ utxos \in UTXOSamples
    /\ amountSats \in AmountSamples
    /\ feeRate \in FeeRateSamples
    /\ sel = NoSelection
    /\ NoTransfer
    /\ arg = NoArg
    /\ ret = NoRet

SelectCall ==
    /\ pc = "select"
    /\ sel' = selectUTXOs(utxos, amountSats, feeRate)
    /\ pc' = "selected"
    /\ UNCHANGED <<utxos, amountSats, feeRate>>
    /\ UNCHANGED transferVars
    /\ UNCHANGED <<arg, ret, helper>>

NextSelect == SelectCall

SpecSelect == InitSelect /\ [][NextSelect]_vars

(***************************************************************************)
(* A Transfer call and its environment.  Every external call is recorded   *)
(* in calls with the class of response the environment gave:               *)
(*   ok         a success response carrying the queried data               *)
(*   transport  the HTTP round trip failed                                 *)
(*   status     a non-success HTTP status with a JSON error body           *)
(*   garbled    a success status with a body that is not JSON              *)
(*   rpc_error  a JSON-RPC envelope with its error member set              *)
(*   missing    a success status with JSON that lacks the queried data     *)
(***************************************************************************)
NoPayload == [none |-> TRUE]

\* a call, what was sent with it, and what came back
CalledGot(kind, name, resp, sent, got) ==
    calls' = Append(calls, [kind |-> kind, name |-> name, resp |-> resp, sent |-> sent,
                            got |-> got])

Called(kind, name, resp, sent) == CalledGot(kind, name, resp, sent, NoPayload)

Return(txid) ==
    /\ result' = [status |-> "ok", err |-> "", txid |-> txid]
    /\ pc' = "done"

Fail(e) ==
    /\ result' = [status |-> "error", err |-> e, txid |-> ""]
    /\ pc' = "done"

\* a run-time panic unwinds Transfer: the caller gets no return value
Panic(e) ==
    /\ result' = [status |-> "panic", err |-> e, txid |-> ""]
    /\ pc' = "done"

\* Client.doRequest: an error on a failed round trip, on a status outside
\* 200..299 and on a body json.Unmarshal rejects; fields the body lacks stay zero
PrivyFails(resp) == resp \in {"transport", "status", "garbled"}

PrivyResponses == {"ok", "transport", "status", "garbled", "missing"}

\* the wallet a response without the wallet fields decodes to
ZeroWallet(addr) == [Address |-> addr, PublicKey |-> <<>>]

\* Wallets().Get; emptyAddr is the empty string in the form the chain's model
\* keeps addresses in
WalletsGet(resp, w, emptyAddr) == IF resp = "missing" THEN ZeroWallet(emptyAddr) ELSE w

\* RawSign: the signature string of the response
RawSignSignature(resp, sig) == IF resp = "missing" THEN <<>> ELSE sig

(***************************************************************************)
(* The slice hex.DecodeString returns.  Its length is the decoded length;  *)
(* its capacity is not part of the package's contract.  A release that     *)
(* allocates the destination returns capacity = length; a release that     *)
(* decodes in place inside []byte(s) returns the capacity of that array    *)
(* (the allocator's size class for 2*length bytes), whose bytes past the   *)
(* decoded ones still hold the hex characters.  A slice expression whose   *)
(* upper bound exceeds the capacity panics; one within the capacity reads  *)
(* the backing array.                                                      *)
(***************************************************************************)
DecodeBuilds == {"fresh", "inplace"}

GoSizeClasses == <<8, 16, 24, 32, 48, 64, 80, 96, 112, 128>>

SizeClass(n) ==
    IF n = 0 \/ n > GoSizeClasses[Len(GoSizeClasses)] THEN n
    ELSE GoSizeClasses[CHOOSE i \in 1..Len(GoSizeClasses) :
                           /\ GoSizeClasses[i] >= n
                           /\ \A j \in 1..(i - 1) : GoSizeClasses[j] < n]

AsciiOf(c) ==
    IF IsDigit(c) THEN 48 + HexVal(c)
    ELSE IF c \in Range(HexLower) THEN 87 + HexVal(c)
    ELSE 55 + HexVal(c)

\* the backing array of decodeHex(s), s a valid hex string
Backing(s, build) ==
    LET h == TrimPrefix0x(s)
        b == HexDecodeString(h).bytes
    IN  IF build = "fresh" THEN b
        ELSE [i \in 1..SizeClass(Len(h)) |->
                 IF i <= Len(b) THEN b[i]
                 ELSE IF i <= Len(h) THEN AsciiOf(h[i])
                 ELSE 0]

\* buf[lo:hi] of a slice of length len over the backing array (0-based bounds)
SliceExpr(backing, lo, hi) ==
    IF hi > Len(backing) THEN [panic |-> TRUE, bytes |-> <<>>]
    ELSE [panic |-> FALSE, bytes |-> SubSeq(backing, lo + 1, hi)]

(***************************************************************************)
(* bitcoin: buildTx, calcWitnessSigHash                                    *)
(***************************************************************************)
DustThreshold == 546

SigHashAll == 1

ReverseBytes(b) == [i \in 1..Len(b) |-> b[Len(b) + 1 - i]]

\* chainhash.NewHashFromStr: at most 64 hex characters, an odd length is
\* padded with a leading zero, the bytes are stored reversed in a 32-byte array
NewHashFromStr(t) ==
    LET padded == IF Len(t) % 2 = 1 THEN <<"0">> \o t ELSE t
        d      == HexDecodeString(padded)
        rev    == ReverseBytes(d.bytes)
    IN  IF Len(t) > 64 \/ d.err THEN [err |-> TRUE, hash |-> <<>>]
        ELSE [err |-> FALSE,
              hash |-> [i \in 1..32 |-> IF i <= Len(rev) THEN rev[i] ELSE 0]]

\* the addresses btcutil.DecodeAddress accepts for the helper's network
BtcAddresses == {"1A1zP1eP5QGefi2DMPTfTL5SLmv7DivfNa", "bc1qw508d6qejxtdg4y5r3zarvary0c5xw7kv8f3t4"}

DecodeAddress(a) == [err |-> a \notin BtcAddresses, addr |-> a]

PayToAddrScript(a) == [payTo |-> a]

NewTxIn(u) ==
    [PreviousOutPoint |-> [Hash |-> NewHashFromStr(u.TxID).hash, Index |-> u.Vout],
     Witness |-> <<>>]

buildTx(us, dest, changeAddr, amt, totalInput, fee) ==
    LET ins    == [i \in 1..Len(us) |-> NewTxIn(us[i])]
        pay    == [Value |-> amt, PkScript |-> PayToAddrScript(dest)]
        change == Sub(Sub(totalInput, amt), fee)
        chg    == [Value |-> change, PkScript |-> PayToAddrScript(changeAddr)]
    IN  IF \E i \in 1..Len(us) : NewHashFromStr(us[i].TxID).err
        THEN [err |-> TRUE, tx |-> NoTx]
        ELSE IF DecodeAddress(dest).err THEN [err |-> TRUE, tx |-> NoTx]
        ELSE IF Lt(I64(DustThreshold), change)
        THEN IF DecodeAddress(changeAddr).err THEN [err |-> TRUE, tx |-> NoTx]
             ELSE [err |-> FALSE, tx |-> [TxIn |-> ins, TxOut |-> <<pay, chg>>]]
        ELSE [err |-> FALSE, tx |-> [TxIn |-> ins, TxOut |-> <<pay>>]]

Hash160(b) == [alg |-> "hash160", of |-> b]

\* the digest computed once, for the first input, and reused for every input
calcWitnessSigHashShared(t, idx, inputAmount, pubKeyHash) ==
    [alg        |-> "bip143",
     prevouts   |-> [i \in 1..Len(t.TxIn) |-> t.TxIn[i].PreviousOutPoint],
     outpoint   |-> t.TxIn[1].PreviousOutPoint,
     scriptCode |-> [p2pkh |-> pubKeyHash],
     amount     |-> inputAmount,
     outputs    |-> t.TxOut,
     hashType   |-> SigHashAll]

\* the BIP143 digest: what txscript.CalcWitnessSigHash commits to for input idx
calcWitnessSigHash(t, idx, inputAmount, pubKeyHash) ==
    [alg        |-> "bip143",
     prevouts   |-> [i \in 1..Len(t.TxIn) |-> t.TxIn[i].PreviousOutPoint],
     outpoint   |-> t.TxIn[idx + 1].PreviousOutPoint,
     scriptCode |-> [p2pkh |-> pubKeyHash],
     amount     |-> inputAmount,
     outputs    |-> t.TxOut,
     hashType   |-> SigHashAll]

\* tx.Serialize followed by hex.EncodeToString: the wire form of the transaction
SerializeTx(t) == [encoding |-> "segwit-hex", inputs |-> t.TxIn, outputs |-> t.TxOut]

(***************************************************************************)
(* bitcoin: Helper.Transfer, one action per external call together with    *)
(* the local steps that follow it up to the next call.                     *)
(***************************************************************************)
BtcPubKeyBytes == decodeHex(wallet.PublicKey).bytes

BtcPubKeyHash == Hash160(BtcPubKeyBytes)

\* a compressed secp256k1 public key, hex encoded
PubKeyHex == Hex0x(<<2>> \o [i \in 1..32 |-> (7 * i) % 256])

BtcWallets ==
    {[Address |-> "bc1qw508d6qejxtdg4y5r3zarvary0c5xw7kv8f3t4", PublicKey |-> PubKeyHex],
     [Address |-> "bc1qw508d6qejxtdg4y5r3zarvary0c5xw7kv8f3t4", PublicKey |-> <<"z", "z">>]}

\* UTXO lists the explorer answers with
ExplorerLists ==
    {<<[TxID |-> <<"a", "1">>, Vout |-> 0, Value |-> I64(100000)]>>,
     <<[TxID |-> <<"b", "2">>, Vout |-> 0, Value |-> I64(30000)],
       [TxID |-> <<"c", "3">>, Vout |-> 1, Value |-> I64(40000)]>>,
     <<[TxID |-> <<"n", "o">>, Vout |-> 0, Value |-> I64(100000)]>>}

\* R || S as the oracle's test double returns it
TestSigBytes ==
    [i \in 1..64 |->
        <<170, 187, 204, 221, 238, 255, 0, 17, 34, 51, 68, 85, 102, 119, 136, 153>>[((i - 1) % 16) + 1]]

\* signature strings the oracle answers with: 64 bytes, 65 bytes (with a
\* recovery byte), 40 bytes, 3 bytes, and one that is no hex string
OracleSignatures ==
    {Hex0x(TestSigBytes),
     Hex0x(TestSigBytes \o <<1>>),
     Hex0x(SubSeq(TestSigBytes, 1, 40)),
     <<"0", "x", "a", "b", "c", "d", "e", "f">>,
     <<"0", "x", "z", "z">>}

\* Transfer up to and including the wallet lookup
BtcGetWallet ==
    /\ pc = "start"
    /\ chain = "bitcoin"
    /\ UNCHANGED <<arg, ret, helper>>
    /\ UNCHANGED <<chain, amountArg, destination, feeRate, utxos, sel, tx, signIdx, chainState>>
    /\ LET p == ParseInt(amountArg)
       IN  IF p.err
           THEN /\ Fail("invalid amount")
                /\ UNCHANGED <<calls, wallet, amountSats>>
           ELSE \E resp \in PrivyResponses, w \in BtcWallets :
                /\ amountSats' = p.val
                /\ Called("wallet", "privy.wallets.get", resp, NoPayload)
                /\ IF PrivyFails(resp)
                   THEN Fail("get wallet") /\ UNCHANGED wallet
                   ELSE /\ wallet' = WalletsGet(resp, w, "")
                        /\ IF decodeHex(wallet'.PublicKey).err
                           THEN Fail("decode public key")
                           ELSE pc' = "fetch" /\ UNCHANGED result

\* fetchUTXOs, selectUTXOs and buildTx
BtcFetchUTXOs ==
    /\ pc = "fetch"
    /\ chain = "bitcoin"
    /\ UNCHANGED <<arg, ret, helper>>
    /\ UNCHANGED <<chain, amountArg, destination, feeRate, wallet, amountSats, signIdx,
                   chainState>>
    /\ \E resp \in {"ok", "transport", "status", "garbled", "missing"}, l \in ExplorerLists :
        /\ Called("chain", "explorer.utxo", resp, NoPayload)
        /\ IF resp \in {"transport", "status", "garbled"}
           THEN Fail("fetch utxos") /\ UNCHANGED <<utxos, sel, tx>>
           ELSE /\ utxos' = IF resp = "missing" THEN <<>> ELSE l
                /\ IF Len(utxos') = 0
                   THEN Fail("no UTXOs found") /\ UNCHANGED <<sel, tx>>
                   ELSE /\ sel' = selectUTXOs(utxos', amountSats, feeRate)
                        /\ IF sel'.err
                           THEN Fail("select utxos") /\ UNCHANGED tx
                           ELSE LET b == buildTx(sel'.selected, destination, wallet.Address,
                                                 amountSats, sel'.totalInput, sel'.fee)
                                IN  IF b.err
                                    THEN Fail("build transaction") /\ UNCHANGED tx
                                    ELSE tx' = b.tx /\ pc' = "sign" /\ UNCHANGED result

\* one iteration of the signing loop
BtcSignInput ==
    /\ pc = "sign"
    /\ chain = "bitcoin"
    /\ UNCHANGED <<arg, ret, helper>>
    /\ signIdx < Len(sel.selected)
    /\ UNCHANGED <<chain, amountArg, destination, feeRate, wallet, amountSats, utxos, sel,
                   chainState>>
    /\ \E resp \in PrivyResponses, sig \in OracleSignatures, build \in DecodeBuilds :
        LET sigHash  == calcWitnessSigHash(tx, signIdx, sel.selected[signIdx + 1].Value,
                                           BtcPubKeyHash)
            sigStr   == RawSignSignature(resp, sig)
            dec      == decodeHex(sigStr)
            backing  == Backing(sigStr, build)
            \* if len(sigBytes) > 64 { sigBytes = sigBytes[:64] } leaves the array alone
            r        == SliceExpr(backing, 0, 32)
            sHalf    == SliceExpr(backing, 32, 64)
            derSig   == derEncodeSignature(r.bytes, sHalf.bytes) \o <<SigHashAll>>
        IN  /\ CalledGot("oracle", "privy.raw_sign", resp, [hash |-> sigHash],
                      [signature |-> sigStr])
            /\ IF PrivyFails(resp)
               THEN Fail("sign input") /\ UNCHANGED <<tx, signIdx>>
               ELSE IF dec.err
               THEN Fail("decode signature") /\ UNCHANGED <<tx, signIdx>>
               ELSE IF r.panic \/ sHalf.panic
               THEN Panic("slice bounds out of range") /\ UNCHANGED <<tx, signIdx>>
               ELSE /\ tx' = [tx EXCEPT !.TxIn[signIdx + 1].Witness = <<derSig, BtcPubKeyBytes>>]
                    /\ signIdx' = signIdx + 1
                    /\ pc' = IF signIdx + 1 < Len(sel.selected) THEN "sign" ELSE "broadcast"
                    /\ UNCHANGED result

\* tx.Serialize and broadcastTx
BtcBroadcast ==
    /\ pc = "broadcast"
    /\ chain = "bitcoin"
    /\ UNCHANGED <<arg, ret, helper>>
    /\ UNCHANGED <<chain, amountArg, destination, feeRate, wallet, amountSats, utxos, sel,
                   tx, signIdx, chainState>>
    /\ \E resp \in {"ok", "transport", "status", "missing"} :
        LET body == IF resp = "ok" THEN "txid123456" ELSE ""
        IN  /\ CalledGot("broadcast", "explorer.tx", resp, [raw |-> SerializeTx(tx)],
                          [body |-> body])
            /\ IF resp \in {"transport", "status"} THEN Fail("broadcast")
               ELSE Return(body)

(***************************************************************************)
(* Digests and transport encodings are injective functions of the bytes    *)
(* they are computed from; they are kept as terms over those bytes.        *)
(***************************************************************************)
Sha256(b) == [alg |-> "sha256", of |-> b]

Base64(b) == [encoding |-> "base64", of |-> b]

\* cut at n bytes, a shorter string left as short as it is
CutWithoutPadding(b, n) == SubSeq(b, 1, IF Len(b) < n THEN Len(b) ELSE n)

\* copy into a zeroed array of n bytes: right padded with zeros, cut at n
ZeroPadRight(b, n) == [i \in 1..n |-> IF i <= Len(b) THEN b[i] ELSE 0]

JsonRpcResponses == {"ok", "transport", "status", "garbled", "rpc_error", "missing"}

\* callRPC followed by json.Unmarshal of the result: a response without a
\* result member leaves an empty RawMessage, which json.Unmarshal rejects
JsonRpcFails(resp) == resp \in {"transport", "status", "garbled", "rpc_error"}

(***************************************************************************)
(* near: base58Decode, big.Int.SetString, serializeTransaction             *)
(***************************************************************************)
Base58Alphabet ==
    <<"1", "2", "3", "4", "5", "6", "7", "8", "9", "A", "B", "C", "D", "E", "F",
      "G", "H", "J", "K", "L", "M", "N", "P", "Q", "R", "S", "T", "U", "V", "W",
      "X", "Y", "Z", "a", "b", "c", "d", "e", "f", "g", "h", "i", "j", "k", "m",
      "n", "o", "p", "q", "r", "s", "t", "u", "v", "w", "x", "y", "z">>

IsBase58(c) == c \in Range(Base58Alphabet)

Base58Index(c) == (CHOOSE i \in 1..Len(Base58Alphabet) : Base58Alphabet[i] = c) - 1

RECURSIVE Base58Value(_, _)
Base58Value(s, n) ==
    IF n = 0 THEN Zero(WideLimbs)
    ELSE Add(MulSmall(Base58Value(s, n - 1), 58), FromInt(Base58Index(s[n]), WideLimbs))

RECURSIVE StripAllLeadingZeros(_)
StripAllLeadingZeros(b) ==
    IF Len(b) > 0 /\ b[1] = 0 THEN StripAllLeadingZeros(Tail(b)) ELSE b

\* big.Int.Bytes: the big-endian bytes of a non-negative value, no leading zeros
BigBytes(v) ==
    StripAllLeadingZeros(
        [k \in 1..(2 * Len(v)) |->
            LET i == 2 * Len(v) + 1 - k
            IN  IF i % 2 = 1 THEN v[(i + 1) \div 2] % 256 ELSE v[i \div 2] \div 256])

RECURSIVE LeadingOnes(_)
LeadingOnes(s) == IF Len(s) > 0 /\ s[1] = "1" THEN 1 + LeadingOnes(Tail(s)) ELSE 0

base58Decode(s) ==
    IF \E i \in 1..Len(s) : ~IsBase58(s[i]) THEN [err |-> TRUE, bytes |-> <<>>]
    ELSE [err |-> FALSE,
          bytes |-> [i \in 1..LeadingOnes(s) |-> 0] \o BigBytes(Base58Value(s, Len(s)))]

\* new(big.Int).SetString(s, 10): an optional sign and at least one digit
BigSetString(s) ==
    LET signed == Len(s) > 0 /\ s[1] \in {"+", "-"}
        body   == IF signed THEN Tail(s) ELSE s
    IN  [ok  |-> AllDigits(body),
         neg |-> Len(s) > 0 /\ s[1] = "-",
         mag |-> IF AllDigits(body) THEN DecimalValue(body, Len(body), WideLimbs)
                 ELSE Zero(WideLimbs)]

\* the bytes of the value in the order big.Int.Bytes gives them
borshWriteU128BigEndian(d) ==
    IF d.neg THEN ZeroPadRight(<<>>, 16) ELSE ZeroPadRight(BigBytes(d.mag), 16)

\* borshWriteU128: 16 bytes little-endian, all zero unless the value is positive
borshWriteU128(d) ==
    LET le == ReverseBytes(BigBytes(d.mag))
    IN  IF d.neg THEN ZeroPadRight(<<>>, 16) ELSE ZeroPadRight(le, 16)

serializeTransaction(signerID, pubKey, nonce, receiverID, blockHash, deposit) ==
    [signerID   |-> signerID,
     keyType    |-> 0,
     publicKey  |-> IF Len(pubKey) >= 32 THEN SubSeq(pubKey, 1, 32) ELSE <<>>,
     nonce      |-> nonce,
     receiverID |-> receiverID,
     blockHash  |-> ZeroPadRight(blockHash, 32),
     actions    |-> <<[action |-> 3, deposit |-> borshWriteU128(deposit)]>>]

(***************************************************************************)
(* near: Helper.Transfer                                                   *)
(***************************************************************************)
Ed25519KeyHex == Hex0x([i \in 1..32 |-> (11 * i) % 256])

NearWallets ==
    {[Address |-> "alice.near", PublicKey |-> Ed25519KeyHex],
     [Address |-> "alice.near", PublicKey |-> PubKeyHex]}

NearNonces == {41}

\* block hashes the node answers with: base58, and one with a character outside it
NearBlockHashes == {<<"2", "g", "Z">>, <<"0", "O", "I">>}

\* signature strings the oracle answers with: 64 bytes, 65 bytes, 3 bytes, and
\* one that is no hex string
ShortSignatures ==
    {Hex0x(TestSigBytes),
     Hex0x(TestSigBytes \o <<1>>),
     <<"0", "x", "a", "b", "c", "d", "e", "f">>,
     <<"0", "x", "z", "z">>}

NearGetWallet ==
    /\ pc = "start"
    /\ chain = "near"
    /\ UNCHANGED <<arg, ret, helper>>
    /\ UNCHANGED <<chain, amountArg, destination, feeRate, utxos, amountSats, sel, tx,
                   signIdx, chainState>>
    /\ \E resp \in PrivyResponses, w \in NearWallets :
        /\ Called("wallet", "privy.wallets.get", resp, NoPayload)
        /\ IF PrivyFails(resp)
           THEN Fail("get wallet") /\ UNCHANGED wallet
           ELSE /\ wallet' = WalletsGet(resp, w, "")
                /\ LET pk == decodeHex(wallet'.PublicKey)
                   IN  IF pk.err THEN Fail("decode public key")
                       ELSE IF Len(pk.bytes) # 32 THEN Fail("expected 32-byte public key")
                       ELSE pc' = "state" /\ UNCHANGED result

NearQueryAccessKey ==
    /\ pc = "state"
    /\ chain = "near"
    /\ UNCHANGED <<arg, ret, helper>>
    /\ UNCHANGED <<chain, amountArg, destination, feeRate, utxos, amountSats, sel, tx,
                   signIdx, wallet>>
    /\ \E resp \in JsonRpcResponses, n \in NearNonces :
        /\ Called("chain", "near.view_access_key", resp, NoPayload)
        /\ IF JsonRpcFails(resp)
           THEN Fail("query access key") /\ UNCHANGED chainState
           ELSE /\ chainState' = [Nonce |-> IF resp = "missing" THEN 0 ELSE n]
                /\ pc' = "state2"
                /\ UNCHANGED result

\* queryBlock, then the local steps up to the digest
NearQueryBlock ==
    /\ pc = "state2"
    /\ chain = "near"
    /\ UNCHANGED <<arg, ret, helper>>
    /\ UNCHANGED <<chain, amountArg, destination, feeRate, utxos, amountSats, sel,
                   signIdx, wallet>>
    /\ \E resp \in JsonRpcResponses, h \in NearBlockHashes :
        LET hashStr   == IF resp = "missing" THEN <<>> ELSE h
            blockHash == base58Decode(hashStr)
            deposit   == BigSetString(amountArg)
        IN  /\ Called("chain", "near.block", resp, NoPayload)
            /\ IF JsonRpcFails(resp)
               THEN Fail("query block") /\ UNCHANGED <<chainState, tx>>
               ELSE /\ chainState' = [Nonce |-> chainState.Nonce, Hash |-> hashStr]
                    /\ IF blockHash.err THEN Fail("decode block hash") /\ UNCHANGED tx
                       ELSE IF ~deposit.ok THEN Fail("invalid amount") /\ UNCHANGED tx
                       ELSE /\ tx' = serializeTransaction(wallet.Address,
                                         decodeHex(wallet.PublicKey).bytes,
                                         chainState.Nonce + 1, destination,
                                         blockHash.bytes, deposit)
                            /\ pc' = "sign"
                            /\ UNCHANGED result

\* RawSign and the signed envelope: transaction, key type 0, 64 signature bytes
NearSign ==
    /\ pc = "sign"
    /\ chain = "near"
    /\ UNCHANGED <<arg, ret, helper>>
    /\ UNCHANGED <<chain, amountArg, destination, feeRate, utxos, amountSats, sel,
                   signIdx, wallet, chainState>>
    /\ \E resp \in PrivyResponses, sig \in ShortSignatures :
        LET dec == decodeHex(RawSignSignature(resp, sig))
        IN  /\ CalledGot("oracle", "privy.raw_sign", resp, [hash |-> Sha256(tx)],
                         [signature |-> RawSignSignature(resp, sig)])
            /\ IF PrivyFails(resp) THEN Fail("sign transaction") /\ UNCHANGED tx
               ELSE IF dec.err THEN Fail("decode signature") /\ UNCHANGED tx
               ELSE /\ tx' = [transaction |-> tx, keyType |-> 0,
                              signature |-> ZeroPadRight(dec.bytes, 64)]
                    /\ pc' = "broadcast"
                    /\ UNCHANGED result

NearBroadcast ==
    /\ pc = "broadcast"
    /\ chain = "near"
    /\ UNCHANGED <<arg, ret, helper>>
    /\ UNCHANGED <<chain, amountArg, destination, feeRate, utxos, amountSats, sel,
                   signIdx, wallet, chainState, tx>>
    /\ \E resp \in JsonRpcResponses :
        /\ Called("broadcast", "near.broadcast_tx_commit", resp, [raw |-> Base64(tx)])
        /\ IF JsonRpcFails(resp) THEN Fail("broadcast transaction")
           ELSE Return(IF resp = "missing" THEN "" ELSE "nearhash")

(***************************************************************************)
(* ton: buildInternalMessage, buildSigningMessage, Helper.Transfer         *)
(***************************************************************************)
TonWalletID == 698983191

ValidSeconds == 300

\* the four bytes of uint32(v) least significant first
LE32(v) == <<v[1] % 256, v[1] \div 256, v[2] % 256, v[2] \div 256>>

\* binary.BigEndian.PutUint32(b, uint32(v)) for an int64 v: the low 32 bits,
\* most significant byte first
BE32(v) == <<v[2] \div 256, v[2] % 256, v[1] \div 256, v[1] % 256>>

\* binary.BigEndian.PutUint64 of a 64-bit value
BE64(a) ==
    [k \in 1..8 |->
        LET limb == a[Int64Limbs - ((k - 1) \div 2)]
        IN  IF k % 2 = 1 THEN limb \div 256 ELSE limb % 256]

\* []byte(s): the bytes of a string, kept as one term
StringBytes(str) == [bytesOf |-> str]

buildInternalMessage(destAddr, amountNano) ==
    <<StringBytes(destAddr)>> \o BE64(amountNano)

buildSigningMessage(walletID, seqno, validUntil, internalMsg) ==
    BE32(walletID) \o BE32(validUntil) \o BE32(seqno) \o <<0, 3>> \o internalMsg

TonWallets == {[Address |-> "EQAliceTonAddress", PublicKey |-> Ed25519KeyHex]}

TonSeqnos == {5}

\* time.Now().Unix() when Transfer runs
TonClock == {1700000000}

HttpJsonResponses == {"ok", "transport", "status", "garbled", "missing"}

\* the toncenter envelope: an error unless the body parses and has ok = true
TonApiFails(resp) == resp \in {"transport", "status", "garbled"}

TonGetWallet ==
    /\ pc = "start"
    /\ chain = "ton"
    /\ UNCHANGED <<arg, ret, helper>>
    /\ UNCHANGED <<chain, amountArg, destination, feeRate, utxos, amountSats, sel, tx,
                   signIdx, chainState>>
    /\ \E resp \in PrivyResponses, w \in TonWallets :
        /\ Called("wallet", "privy.wallets.get", resp, NoPayload)
        /\ IF PrivyFails(resp)
           THEN Fail("get wallet") /\ UNCHANGED wallet
           ELSE /\ wallet' = WalletsGet(resp, w, "")
                /\ IF ParseUint(amountArg).err THEN Fail("invalid amount")
                   ELSE pc' = "state" /\ UNCHANGED result

\* getSeqno, then the signing message
TonGetSeqno ==
    /\ pc = "state"
    /\ chain = "ton"
    /\ UNCHANGED <<arg, ret, helper>>
    /\ UNCHANGED <<chain, amountArg, destination, feeRate, utxos, amountSats, sel,
                   signIdx, wallet>>
    /\ \E resp \in HttpJsonResponses, n \in TonSeqnos, now \in TonClock :
        LET seqno       == IF resp = "missing" THEN 0 ELSE n
            internalMsg == buildInternalMessage(destination, ParseUint(amountArg).val)
        IN  /\ Called("chain", "ton.getWalletInformation", resp, NoPayload)
            /\ IF TonApiFails(resp)
               THEN Fail("get seqno") /\ UNCHANGED <<chainState, tx>>
               ELSE /\ chainState' = [Seqno |-> seqno]
                    /\ tx' = buildSigningMessage(I64(TonWalletID), I64(seqno),
                                                 I64(now + ValidSeconds), internalMsg)
                    /\ pc' = "sign"
                    /\ UNCHANGED result

\* RawSign and the external message body: signature bytes, then the signing message
TonSign ==
    /\ pc = "sign"
    /\ chain = "ton"
    /\ UNCHANGED <<arg, ret, helper>>
    /\ UNCHANGED <<chain, amountArg, destination, feeRate, utxos, amountSats, sel,
                   signIdx, wallet, chainState>>
    /\ \E resp \in PrivyResponses, sig \in ShortSignatures :
        LET dec == decodeHex(RawSignSignature(resp, sig))
        IN  /\ CalledGot("oracle", "privy.raw_sign", resp, [hash |-> Sha256(tx)],
                         [signature |-> RawSignSignature(resp, sig)])
            /\ IF PrivyFails(resp) THEN Fail("sign transaction") /\ UNCHANGED tx
               ELSE IF dec.err THEN Fail("decode signature") /\ UNCHANGED tx
               ELSE /\ tx' = dec.bytes \o tx
                    /\ pc' = "broadcast"
                    /\ UNCHANGED result

\* sendBoc: the identifier returned is the SHA-256 of the BOC text, not a field
\* of the response
TonSendBoc ==
    /\ pc = "broadcast"
    /\ chain = "ton"
    /\ UNCHANGED <<arg, ret, helper>>
    /\ UNCHANGED <<chain, amountArg, destination, feeRate, utxos, amountSats, sel,
                   signIdx, wallet, chainState, tx>>
    /\ \E resp \in HttpJsonResponses :
        /\ Called("broadcast", "ton.sendBoc", resp, [raw |-> Base64(tx)])
        /\ IF TonApiFails(resp) THEN Fail("send boc")
           ELSE Return("sha256(boc)")

(***************************************************************************)
(* starknet: big integers, felts, Helper.Transfer.  A *big.Int is a sign    *)
(* and a magnitude; the magnitude is a limb sequence, or a name for the     *)
(* package's 250-bit constants.                                             *)
(***************************************************************************)
BigNat(mag) == [neg |-> FALSE, mag |-> mag]

BigSmall(v) == BigNat(FromInt(v, WideLimbs))

RECURSIVE HexValue(_, _)
HexValue(s, n) ==
    IF n = 0 THEN Zero(WideLimbs)
    ELSE Add(MulSmall(HexValue(s, n - 1), 16), FromInt(HexVal(s[n]), WideLimbs))

\* strings.TrimPrefix(s, "0x") and big.Int.SetString(s, 16); the value is left
\* at zero when the string is rejected, and the verdict is dropped
hexToBigInt(s) ==
    LET t      == TrimPrefix0x(s)
        signed == Len(t) > 0 /\ t[1] \in {"+", "-"}
        body   == IF signed THEN Tail(t) ELSE t
        ok     == Len(body) > 0 /\ \A i \in 1..Len(body) : IsHexChar(body[i])
        mag    == IF ok THEN HexValue(body, Len(body)) ELSE Zero(WideLimbs)
    IN  [neg |-> ok /\ t[1] = "-" /\ mag # Zero(WideLimbs), mag |-> mag]

ethContractAddress == BigNat("0x049d36570d4e46f48e99674bd3fcc84644ddd6b96f7c741b1562b82f9e004dc7")

transferSelector == BigNat("0x83afd3f4caedc6eebf44246fe54e38c95e3179a5ec9ea81740eca5b482d12e")

invokePrefix == BigNat("invoke")

mainnetChainID == BigNat("SN_MAIN")

defaultMaxFee == BigNat("1e16")

\* fp.Element.SetBigInt: the value modulo the field prime; a negative value -m
\* becomes p - m
SetBigInt(b) == [reduced |-> b.neg, of |-> b.mag]

\* "0x" + v.Text(16): the sign and the hex digits of the magnitude
Text16(b) == [sign |-> IF b.neg THEN "-" ELSE "", digits |-> b.mag]

\* amount & (2^128 - 1) and amount >> 128 for |amount| < 2^95; big.Int gives
\* both two's complement semantics
AmountLow(a) ==
    IF a.neg THEN BigNat(Neg(Ext(a.mag, 2 * Int64Limbs)) \o <<0>>) ELSE BigNat(a.mag)

AmountHigh(a) ==
    IF a.neg THEN [neg |-> TRUE, mag |-> FromInt(1, WideLimbs)] ELSE BigSmall(0)

buildETHTransferCalldata(recipient, amt) ==
    <<BigSmall(1), ethContractAddress, transferSelector, BigSmall(0), BigSmall(3),
      BigSmall(3), hexToBigInt(recipient), AmountLow(amt), AmountHigh(amt)>>

\* pedersenhash.PedersenArray of gnark-crypto, StarkNet's array hashing: the
\* chain h(h(...h(h(0, e1), e2)..., en), n) over its arguments, n their number.
\* The hash is kept as a term: the chained elements and the count hashed last.
PedersenArray(elems) == [alg |-> "pedersen", elements |-> elems, len |-> Len(elems)]

\* the felts of the elements, then the felt of their number, handed to PedersenArray
computeHashOnElements(elements) ==
    PedersenArray([i \in 1..(Len(elements) + 1) |->
                      IF i <= Len(elements) THEN SetBigInt(elements[i])
                      ELSE SetBigInt(BigSmall(Len(elements)))])

\* a hash is itself a felt
HashAsBig(h) == BigNat(h)

invokeTxHash(senderAddress, calldata, maxFee, chainID, nonce) ==
    computeHashOnElements(<<invokePrefix, BigSmall(1), senderAddress, BigSmall(0),
                            HashAsBig(computeHashOnElements(calldata)), maxFee, chainID,
                            nonce>>)

\* the zeros appended after the signature instead of put in front of it
PadSigHexRight(sigHex) ==
    IF Len(sigHex) < 128 THEN sigHex \o [i \in 1..(128 - Len(sigHex)) |-> "0"] ELSE sigHex

\* strings.Repeat("0", 128-len(sigHex)) + sigHex, then sigHex[:64], sigHex[64:128]
PadSigHex(sigHex) ==
    IF Len(sigHex) < 128 THEN [i \in 1..(128 - Len(sigHex)) |-> "0"] \o sigHex ELSE sigHex

invokeTransaction(senderAddr, calldata, maxFee, nonce, r, sHalf) ==
    [type           |-> "INVOKE",
     sender_address |-> senderAddr,
     calldata       |-> [i \in 1..Len(calldata) |-> Text16(calldata[i])],
     max_fee        |-> Text16(maxFee),
     version        |-> "0x1",
     signature      |-> <<r, sHalf>>,
     nonce          |-> Text16(nonce)]

StarkWallets == {[Address |-> <<"0", "x", "4", "a", "1">>, PublicKey |-> PubKeyHex]}

\* nonces the node answers with
StarkNonces == {<<"0", "x", "5">>}

StarkGetWallet ==
    /\ pc = "start"
    /\ chain = "starknet"
    /\ UNCHANGED <<arg, ret, helper>>
    /\ UNCHANGED <<chain, amountArg, destination, feeRate, utxos, amountSats, sel, tx,
                   signIdx, chainState>>
    /\ \E resp \in PrivyResponses, w \in StarkWallets :
        /\ Called("wallet", "privy.wallets.get", resp, NoPayload)
        /\ IF PrivyFails(resp)
           THEN Fail("get wallet") /\ UNCHANGED wallet
           ELSE /\ wallet' = WalletsGet(resp, w, <<>>)
                /\ IF ~BigSetString(amountArg).ok THEN Fail("invalid amount")
                   ELSE pc' = "state" /\ UNCHANGED result

\* getNonce, then the calldata; a null result decodes to the empty string
StarkGetNonce ==
    /\ pc = "state"
    /\ chain = "starknet"
    /\ UNCHANGED <<arg, ret, helper>>
    /\ UNCHANGED <<chain, amountArg, destination, feeRate, utxos, amountSats, sel,
                   signIdx, wallet>>
    /\ \E resp \in JsonRpcResponses, n \in StarkNonces :
        LET nonceHex == IF resp = "missing" THEN <<>> ELSE n
            amt      == BigSetString(amountArg)
        IN  /\ Called("chain", "starknet_getNonce", resp, NoPayload)
            /\ IF JsonRpcFails(resp)
               THEN Fail("get nonce") /\ UNCHANGED <<chainState, tx>>
               ELSE /\ chainState' = [Nonce |-> hexToBigInt(nonceHex)]
                    /\ tx' = buildETHTransferCalldata(destination,
                                 [neg |-> amt.neg /\ amt.mag # Zero(WideLimbs), mag |-> amt.mag])
                    /\ pc' = "sign"
                    /\ UNCHANGED result

\* the INVOKE V1 hash, RawSign, and the split of the signature into r and s
StarkSign ==
    /\ pc = "sign"
    /\ chain = "starknet"
    /\ UNCHANGED <<arg, ret, helper>>
    /\ UNCHANGED <<chain, amountArg, destination, feeRate, utxos, amountSats, sel,
                   signIdx, wallet, chainState>>
    /\ \E resp \in PrivyResponses, sig \in ShortSignatures :
        LET txHash == invokeTxHash(hexToBigInt(wallet.Address), tx, defaultMaxFee,
                                   mainnetChainID, chainState.Nonce)
            sigHex == PadSigHex(TrimPrefix0x(RawSignSignature(resp, sig)))
        IN  /\ CalledGot("oracle", "privy.raw_sign", resp, [hash |-> txHash],
                         [signature |-> RawSignSignature(resp, sig)])
            /\ IF PrivyFails(resp) THEN Fail("sign transaction") /\ UNCHANGED tx
               ELSE /\ tx' = invokeTransaction(wallet.Address, tx, defaultMaxFee,
                                               chainState.Nonce,
                                               <<"0", "x">> \o SubSeq(sigHex, 1, 64),
                                               <<"0", "x">> \o SubSeq(sigHex, 65, 128))
                    /\ pc' = "broadcast"
                    /\ UNCHANGED result

StarkAddInvokeTransaction ==
    /\ pc = "broadcast"
    /\ chain = "starknet"
    /\ UNCHANGED <<arg, ret, helper>>
    /\ UNCHANGED <<chain, amountArg, destination, feeRate, utxos, amountSats, sel,
                   signIdx, wallet, chainState, tx>>
    /\ \E resp \in JsonRpcResponses :
        /\ Called("broadcast", "starknet_addInvokeTransaction", resp, [raw |-> tx])
        /\ IF JsonRpcFails(resp) THEN Fail("submit transaction")
           ELSE Return(IF resp = "missing" THEN "" ELSE "0xstarkhash")

(***************************************************************************)
(* cosmos: Helper.Transfer.  proto.Marshal is injective on the messages    *)
(* built here; a marshalled message is kept as a term over its fields.     *)
(***************************************************************************)
ProtoMarshal(m) == [proto |-> m]

RECURSIVE DigitPrefix(_)
DigitPrefix(s) ==
    IF Len(s) > 0 /\ IsDigit(s[1]) THEN <<s[1]>> \o DigitPrefix(Tail(s)) ELSE <<>>

\* fmt.Sscanf(s, "%d", &v) with the error dropped: v stays 0 unless s starts
\* with digits that fit 64 bits
SscanfUint(s) ==
    LET d == DigitPrefix(s)
    IN  IF Len(d) = 0 \/ ParseUint(d).err THEN I64(0) ELSE ParseUint(d).val

CosmosWallets == {[Address |-> "cosmos1alice", PublicKey |-> PubKeyHex]}

\* account records the REST API answers with
CosmosAccounts == {[AccountNumber |-> <<"1", "2">>, Sequence |-> <<"7">>]}

ZeroAccount == [AccountNumber |-> <<>>, Sequence |-> <<>>]

MsgSend(from, to, denom, amt) ==
    [typeUrl |-> "/cosmos.bank.v1beta1.MsgSend", FromAddress |-> from, ToAddress |-> to,
     Amount |-> <<[Denom |-> denom, Amount |-> amt]>>]

AuthInfo(pubKeyBytes, sequence) ==
    [SignerInfos |-> <<[PublicKey |-> [TypeUrl |-> "/cosmos.crypto.secp256k1.PubKey",
                                       Value |-> pubKeyBytes],
                        Mode |-> "SIGN_MODE_DIRECT",
                        Sequence |-> sequence]>>,
     Fee |-> [Amount |-> <<[Denom |-> "uatom", Amount |-> "feeAmount"]>>,
              GasLimit |-> "gasLimit"]]

SignDoc(bodyBytes, authInfoBytes, accountNumber) ==
    [BodyBytes |-> bodyBytes, AuthInfoBytes |-> authInfoBytes, ChainId |-> "chainID",
     AccountNumber |-> accountNumber]

TxRaw(bodyBytes, authInfoBytes, sigBytes) ==
    [BodyBytes |-> bodyBytes, AuthInfoBytes |-> authInfoBytes, Signatures |-> <<sigBytes>>]

\* signature strings the oracle answers with: 64, 65 and 3 bytes, and no hex
CosmosSignatures == ShortSignatures

CosmosGetWallet ==
    /\ pc = "start"
    /\ chain = "cosmos"
    /\ UNCHANGED <<arg, ret, helper>>
    /\ UNCHANGED <<chain, amountArg, destination, feeRate, utxos, amountSats, sel, tx,
                   signIdx, chainState>>
    /\ \E resp \in PrivyResponses, w \in CosmosWallets :
        /\ Called("wallet", "privy.wallets.get", resp, NoPayload)
        /\ IF PrivyFails(resp)
           THEN Fail("get wallet") /\ UNCHANGED wallet
           ELSE wallet' = WalletsGet(resp, w, "") /\ pc' = "state" /\ UNCHANGED result

\* queryAccount reads neither the HTTP status nor whether the account is present
CosmosQueryAccount ==
    /\ pc = "state"
    /\ chain = "cosmos"
    /\ UNCHANGED <<arg, ret, helper>>
    /\ UNCHANGED <<chain, amountArg, destination, feeRate, utxos, amountSats, sel,
                   signIdx, wallet>>
    /\ \E resp \in HttpJsonResponses, a \in CosmosAccounts :
        LET acct          == IF resp = "ok" THEN a ELSE ZeroAccount
            accountNumber == SscanfUint(acct.AccountNumber)
            sequence      == SscanfUint(acct.Sequence)
            bodyBytes     == ProtoMarshal([Messages |->
                                 <<MsgSend(wallet.Address, destination, "uatom", amountArg)>>])
            pubKey        == decodeHex(wallet.PublicKey)
            authInfoBytes == ProtoMarshal(AuthInfo(pubKey.bytes, sequence))
        IN  /\ Called("chain", "cosmos.auth.accounts", resp, NoPayload)
            /\ IF resp \in {"transport", "garbled"}
               THEN Fail("query account") /\ UNCHANGED <<chainState, tx>>
               ELSE /\ chainState' = [AccountNumber |-> accountNumber, Sequence |-> sequence]
                    /\ IF pubKey.err THEN Fail("decode public key") /\ UNCHANGED tx
                       ELSE /\ tx' = SignDoc(bodyBytes, authInfoBytes, accountNumber)
                            /\ pc' = "sign"
                            /\ UNCHANGED result

\* RawSign over SHA-256 of the SignDoc, then TxRaw
CosmosSign ==
    /\ pc = "sign"
    /\ chain = "cosmos"
    /\ UNCHANGED <<arg, ret, helper>>
    /\ UNCHANGED <<chain, amountArg, destination, feeRate, utxos, amountSats, sel,
                   signIdx, wallet, chainState>>
    /\ \E resp \in PrivyResponses, sig \in CosmosSignatures :
        LET dec      == decodeHex(RawSignSignature(resp, sig))
            sigBytes == IF Len(dec.bytes) = 65 THEN SubSeq(dec.bytes, 1, 64) ELSE dec.bytes
        IN  /\ CalledGot("oracle", "privy.raw_sign", resp, [hash |-> Sha256(ProtoMarshal(tx))],
                         [signature |-> RawSignSignature(resp, sig)])
            /\ IF PrivyFails(resp) THEN Fail("sign transaction") /\ UNCHANGED tx
               ELSE IF dec.err THEN Fail("decode signature") /\ UNCHANGED tx
               ELSE /\ tx' = TxRaw(tx.BodyBytes, tx.AuthInfoBytes, sigBytes)
                    /\ pc' = "broadcast"
                    /\ UNCHANGED result

\* a broadcast that returns the hash of the response without reading its code
CosmosBroadcastIgnoringCode ==
    /\ pc = "broadcast"
    /\ chain = "cosmos"
    /\ UNCHANGED <<arg, ret, helper>>
    /\ UNCHANGED <<chain, amountArg, destination, feeRate, utxos, amountSats, sel,
                   signIdx, wallet, chainState, tx>>
    /\ \E resp \in HttpJsonResponses \cup {"rejected"} :
        /\ Called("broadcast", "cosmos.tx.broadcast", resp,
                  [raw |-> Base64(ProtoMarshal(tx))])
        /\ IF resp \in {"transport", "garbled"} THEN Fail("broadcast")
           ELSE Return(IF resp \in {"ok", "rejected"} THEN "COSMOSHASH" ELSE "")

\* broadcastTx: an error on a failed round trip, a body that is not JSON, or a
\* tx_response with a non-zero code; the HTTP status is not read
CosmosBroadcast ==
    /\ pc = "broadcast"
    /\ chain = "cosmos"
    /\ UNCHANGED <<arg, ret, helper>>
    /\ UNCHANGED <<chain, amountArg, destination, feeRate, utxos, amountSats, sel,
                   signIdx, wallet, chainState, tx>>
    /\ \E resp \in HttpJsonResponses \cup {"rejected"} :
        /\ Called("broadcast", "cosmos.tx.broadcast", resp,
                  [raw |-> Base64(ProtoMarshal(tx))])
        /\ IF resp \in {"transport", "garbled"} THEN Fail("broadcast")
           ELSE IF resp = "rejected" THEN Fail("broadcast failed (code)")
           ELSE Return(IF resp = "ok" THEN "COSMOSHASH" ELSE "")

(***************************************************************************)
(* sui: Helper.Transfer.  The node builds the transaction; the helper      *)
(* signs the bytes it got back.                                            *)
(***************************************************************************)
Blake2b256(b) == [alg |-> "blake2b-256", of |-> b]

\* a string that is no base64 text
NotBase64 == [encoding |-> "none", of |-> <<>>]

Base64Decode(t) == [err |-> t.encoding # "base64", bytes |-> t.of]

SuiWallets == {[Address |-> "0xsuialice", PublicKey |-> Ed25519KeyHex]}

\* what unsafe_transferSui answers with
SuiTxBytes == {Base64(<<1, 2, 3>>), NotBase64}

SuiGetWallet ==
    /\ pc = "start"
    /\ chain = "sui"
    /\ UNCHANGED <<arg, ret, helper>>
    /\ UNCHANGED <<chain, amountArg, destination, feeRate, utxos, amountSats, sel, tx,
                   signIdx, chainState>>
    /\ \E resp \in PrivyResponses, w \in SuiWallets :
        /\ Called("wallet", "privy.wallets.get", resp, NoPayload)
        /\ IF PrivyFails(resp)
           THEN Fail("get wallet") /\ UNCHANGED wallet
           ELSE wallet' = WalletsGet(resp, w, "") /\ pc' = "state" /\ UNCHANGED result

SuiGetGasCoin ==
    /\ pc = "state"
    /\ chain = "sui"
    /\ UNCHANGED <<arg, ret, helper>>
    /\ UNCHANGED <<chain, amountArg, destination, feeRate, utxos, amountSats, sel, tx,
                   signIdx, wallet>>
    /\ \E resp \in JsonRpcResponses :
        /\ Called("chain", "suix_getCoins", resp, NoPayload)
        /\ IF JsonRpcFails(resp) THEN Fail("get gas coin") /\ UNCHANGED chainState
           ELSE IF resp = "missing" THEN Fail("no SUI coins found") /\ UNCHANGED chainState
           ELSE /\ chainState' = [CoinObjectID |-> "0xcoin"]
                /\ pc' = "build"
                /\ UNCHANGED result

\* unsafe_transferSui carries the amount string as given
SuiUnsafeTransferSui ==
    /\ pc = "build"
    /\ chain = "sui"
    /\ UNCHANGED <<arg, ret, helper>>
    /\ UNCHANGED <<chain, amountArg, destination, feeRate, utxos, amountSats, sel,
                   signIdx, wallet, chainState>>
    /\ \E resp \in JsonRpcResponses, t \in SuiTxBytes :
        LET txBytes == IF resp = "missing" THEN Base64(<<>>) ELSE t
        IN  /\ Called("build", "unsafe_transferSui", resp,
                      [sender |-> wallet.Address, coin |-> chainState.CoinObjectID,
                       recipient |-> destination, amount |-> amountArg])
            /\ IF JsonRpcFails(resp) THEN Fail("build transaction") /\ UNCHANGED tx
               ELSE IF Base64Decode(txBytes).err THEN Fail("decode tx bytes") /\ UNCHANGED tx
               ELSE tx' = [txBytes |-> txBytes] /\ pc' = "sign" /\ UNCHANGED result

\* the digest of intent prefix and transaction bytes, RawSign, and the
\* serialized signature flag || signature || public key
SuiSign ==
    /\ pc = "sign"
    /\ chain = "sui"
    /\ UNCHANGED <<arg, ret, helper>>
    /\ UNCHANGED <<chain, amountArg, destination, feeRate, utxos, amountSats, sel,
                   signIdx, wallet, chainState>>
    /\ \E resp \in PrivyResponses, sig \in ShortSignatures :
        LET digest == Blake2b256(<<0, 0, 0>> \o Base64Decode(tx.txBytes).bytes)
            dec    == decodeHex(RawSignSignature(resp, sig))
            pubKey == decodeHex(wallet.PublicKey)
        IN  /\ Called("oracle", "privy.raw_sign", resp, [hash |-> digest])
            /\ IF PrivyFails(resp) THEN Fail("sign transaction") /\ UNCHANGED tx
               ELSE IF dec.err THEN Fail("decode signature") /\ UNCHANGED tx
               ELSE IF pubKey.err THEN Fail("decode public key") /\ UNCHANGED tx
               ELSE /\ tx' = [txBytes |-> tx.txBytes,
                              signatures |-> <<Base64(<<0>> \o dec.bytes \o pubKey.bytes)>>]
                    /\ pc' = "broadcast"
                    /\ UNCHANGED result

SuiExecuteTransactionBlock ==
    /\ pc = "broadcast"
    /\ chain = "sui"
    /\ UNCHANGED <<arg, ret, helper>>
    /\ UNCHANGED <<chain, amountArg, destination, feeRate, utxos, amountSats, sel,
                   signIdx, wallet, chainState, tx>>
    /\ \E resp \in JsonRpcResponses :
        /\ Called("broadcast", "sui_executeTransactionBlock", resp, [raw |-> tx])
        /\ IF JsonRpcFails(resp) THEN Fail("execute transaction")
           ELSE Return(IF resp = "missing" THEN "" ELSE "suidigest")

(***************************************************************************)
(* tron: Helper.Transfer.  The node builds the transaction and names its   *)
(* hash; the helper signs that hash.                                       *)
(***************************************************************************)
TronWallets == {[Address |-> "TAliceTronAddress", PublicKey |-> PubKeyHex]}

TronTransactions ==
    {[TxID |-> <<"a", "b", "1", "2">>, RawDataHex |-> "0a02", Visible |-> TRUE]}

ZeroTronTransaction == [TxID |-> <<>>, RawDataHex |-> "", Visible |-> FALSE]

TronGetWallet ==
    /\ pc = "start"
    /\ chain = "tron"
    /\ UNCHANGED <<arg, ret, helper>>
    /\ UNCHANGED <<chain, amountArg, destination, feeRate, utxos, sel, tx, signIdx,
                   chainState>>
    /\ \E resp \in PrivyResponses, w \in TronWallets :
        /\ Called("wallet", "privy.wallets.get", resp, NoPayload)
        /\ IF PrivyFails(resp)
           THEN Fail("get wallet") /\ UNCHANGED <<wallet, amountSats>>
           ELSE /\ wallet' = WalletsGet(resp, w, "")
                /\ IF ParseInt(amountArg).err
                   THEN Fail("invalid amount") /\ UNCHANGED amountSats
                   ELSE /\ amountSats' = ParseInt(amountArg).val
                        /\ pc' = "build"
                        /\ UNCHANGED result

TronCreateTransaction ==
    /\ pc = "build"
    /\ chain = "tron"
    /\ UNCHANGED <<arg, ret, helper>>
    /\ UNCHANGED <<chain, amountArg, destination, feeRate, utxos, amountSats, sel,
                   signIdx, wallet, chainState>>
    /\ \E resp \in HttpJsonResponses, t \in TronTransactions :
        /\ Called("build", "tron.createtransaction", resp,
                  [owner_address |-> wallet.Address, to_address |-> destination,
                   amount |-> amountSats])
        /\ IF resp \in {"transport", "status", "garbled"}
           THEN Fail("create transaction") /\ UNCHANGED tx
           ELSE /\ tx' = IF resp = "missing" THEN ZeroTronTransaction ELSE t
                /\ IF Len(tx'.TxID) = 0 THEN Fail("empty transaction ID from API")
                   ELSE pc' = "sign" /\ UNCHANGED result

TronSign ==
    /\ pc = "sign"
    /\ chain = "tron"
    /\ UNCHANGED <<arg, ret, helper>>
    /\ UNCHANGED <<chain, amountArg, destination, feeRate, utxos, amountSats, sel,
                   signIdx, wallet, chainState>>
    /\ \E resp \in PrivyResponses, sig \in ShortSignatures :
        /\ Called("oracle", "privy.raw_sign", resp, [hash |-> <<"0", "x">> \o tx.TxID])
        /\ IF PrivyFails(resp) THEN Fail("sign transaction") /\ UNCHANGED tx
           ELSE /\ tx' = [TxID |-> tx.TxID, RawDataHex |-> tx.RawDataHex,
                          Visible |-> tx.Visible,
                          Signature |-> <<TrimPrefix0x(RawSignSignature(resp, sig))>>]
                /\ pc' = "broadcast"
                /\ UNCHANGED result

TronBroadcastTransaction ==
    /\ pc = "broadcast"
    /\ chain = "tron"
    /\ UNCHANGED <<arg, ret, helper>>
    /\ UNCHANGED <<chain, amountArg, destination, feeRate, utxos, amountSats, sel,
                   signIdx, wallet, chainState, tx>>
    /\ \E resp \in HttpJsonResponses \cup {"rejected"} :
        /\ Called("broadcast", "tron.broadcasttransaction", resp, [raw |-> tx])
        /\ IF resp = "ok" THEN Return("ab12") ELSE Fail("broadcast transaction")

(***************************************************************************)
(* solana, ethereum: Privy signs and sends in one call.  stellar, aptos:   *)
(* the chain's SDK makes the chain calls; an SDK call answers with a value *)
(* or with an error.                                                       *)
(***************************************************************************)
SdkResponses == {"ok", "error"}

SolanaAddresses == {"SoLAlice1111", "SoLBob11111"}

SolanaWallets == {[Address |-> "SoLAlice1111", PublicKey |-> Ed25519KeyHex]}

SolanaGetWallet ==
    /\ pc = "start"
    /\ chain = "solana"
    /\ UNCHANGED <<arg, ret, helper>>
    /\ UNCHANGED <<chain, amountArg, destination, feeRate, utxos, amountSats, sel, tx,
                   signIdx, chainState>>
    /\ \E resp \in PrivyResponses, w \in SolanaWallets :
        /\ Called("wallet", "privy.wallets.get", resp, NoPayload)
        /\ IF PrivyFails(resp)
           THEN Fail("get wallet") /\ UNCHANGED wallet
           ELSE /\ wallet' = WalletsGet(resp, w, "")
                /\ IF ParseUint(amountArg).err THEN Fail("invalid amount")
                   ELSE IF wallet'.Address \notin SolanaAddresses
                   THEN Fail("invalid sender address")
                   ELSE IF destination \notin SolanaAddresses
                   THEN Fail("invalid destination address")
                   ELSE pc' = "state" /\ UNCHANGED result

SolanaGetLatestBlockhash ==
    /\ pc = "state"
    /\ chain = "solana"
    /\ UNCHANGED <<arg, ret, helper>>
    /\ UNCHANGED <<chain, amountArg, destination, feeRate, utxos, amountSats, sel,
                   signIdx, wallet>>
    /\ \E resp \in SdkResponses :
        /\ Called("chain", "solana.getLatestBlockhash", resp, NoPayload)
        /\ IF resp = "error"
           THEN Fail("get recent blockhash") /\ UNCHANGED <<chainState, tx>>
           ELSE /\ chainState' = [Blockhash |-> "blockhash"]
                /\ tx' = Base64([instructions |-> <<[transfer |-> ParseUint(amountArg).val,
                                                     from |-> wallet.Address,
                                                     to |-> destination]>>,
                                 recentBlockhash |-> "blockhash",
                                 payer |-> wallet.Address])
                /\ pc' = "send"
                /\ UNCHANGED result

SolanaSignAndSend ==
    /\ pc = "send"
    /\ chain = "solana"
    /\ UNCHANGED <<arg, ret, helper>>
    /\ UNCHANGED <<chain, amountArg, destination, feeRate, utxos, amountSats, sel,
                   signIdx, wallet, chainState, tx>>
    /\ \E resp \in PrivyResponses :
        /\ Called("sign_and_send", "privy.solana.signAndSendTransaction", resp, [raw |-> tx])
        /\ IF PrivyFails(resp) THEN Fail("sign and send")
           ELSE Return(IF resp = "missing" THEN "" ELSE "solsig")

\* Transfer is one SendTransaction call; amount and destination go out as given
EthereumSendTransaction ==
    /\ pc = "start"
    /\ chain = "ethereum"
    /\ UNCHANGED <<arg, ret, helper>>
    /\ UNCHANGED <<chain, amountArg, destination, feeRate, utxos, amountSats, sel,
                   signIdx, wallet, chainState, tx>>
    /\ \E resp \in PrivyResponses :
        /\ Called("sign_and_send", "privy.ethereum.sendTransaction", resp,
                  [raw |-> [To |-> destination, Value |-> amountArg]])
        /\ IF PrivyFails(resp) THEN Fail("send transaction")
           ELSE Return(IF resp = "missing" THEN "" ELSE "0xethhash")

StellarAddresses == {"GALICE", "GBOB"}

StellarWallets == {[Address |-> "GALICE", PublicKey |-> Ed25519KeyHex]}

\* txnbuild.NewTransaction validates the payment: over the amounts of this
\* model it accepts the unsigned decimal ones
StellarPaymentValid(dest, amt) == AllDigits(amt) /\ dest \in StellarAddresses

StellarGetWallet ==
    /\ pc = "start"
    /\ chain = "stellar"
    /\ UNCHANGED <<arg, ret, helper>>
    /\ UNCHANGED <<chain, amountArg, destination, feeRate, utxos, amountSats, sel, tx,
                   signIdx, chainState>>
    /\ \E resp \in PrivyResponses, w \in StellarWallets :
        /\ Called("wallet", "privy.wallets.get", resp, NoPayload)
        /\ IF PrivyFails(resp)
           THEN Fail("get wallet") /\ UNCHANGED wallet
           ELSE wallet' = WalletsGet(resp, w, "") /\ pc' = "state" /\ UNCHANGED result

StellarAccountDetail ==
    /\ pc = "state"
    /\ chain = "stellar"
    /\ UNCHANGED <<arg, ret, helper>>
    /\ UNCHANGED <<chain, amountArg, destination, feeRate, utxos, amountSats, sel,
                   signIdx, wallet>>
    /\ \E resp \in SdkResponses :
        /\ Called("chain", "horizon.AccountDetail", resp, NoPayload)
        /\ IF resp = "error"
           THEN Fail("load account") /\ UNCHANGED <<chainState, tx>>
           ELSE /\ chainState' = [Sequence |-> 9]
                /\ IF ~StellarPaymentValid(destination, amountArg)
                   THEN Fail("build transaction") /\ UNCHANGED tx
                   ELSE /\ tx' = [source |-> wallet.Address, sequence |-> 10,
                                  operations |-> <<[payment |-> amountArg,
                                                    destination |-> destination]>>,
                                  signatures |-> <<>>]
                        /\ pc' = "sign"
                        /\ UNCHANGED result

StellarSign ==
    /\ pc = "sign"
    /\ chain = "stellar"
    /\ UNCHANGED <<arg, ret, helper>>
    /\ UNCHANGED <<chain, amountArg, destination, feeRate, utxos, amountSats, sel,
                   signIdx, wallet, chainState>>
    /\ \E resp \in PrivyResponses, sig \in ShortSignatures :
        LET dec == decodeHex(RawSignSignature(resp, sig))
        IN  /\ Called("oracle", "privy.raw_sign", resp, [hash |-> Sha256(tx)])
            /\ IF PrivyFails(resp) THEN Fail("sign transaction") /\ UNCHANGED tx
               ELSE IF dec.err THEN Fail("decode signature") /\ UNCHANGED tx
               ELSE IF wallet.Address \notin StellarAddresses
               THEN Fail("parse address") /\ UNCHANGED tx
               ELSE /\ tx' = [tx EXCEPT !.signatures =
                                  <<[Hint |-> wallet.Address, Signature |-> dec.bytes]>>]
                    /\ pc' = "broadcast"
                    /\ UNCHANGED result

StellarSubmitTransaction ==
    /\ pc = "broadcast"
    /\ chain = "stellar"
    /\ UNCHANGED <<arg, ret, helper>>
    /\ UNCHANGED <<chain, amountArg, destination, feeRate, utxos, amountSats, sel,
                   signIdx, wallet, chainState, tx>>
    /\ \E resp \in SdkResponses :
        /\ Called("broadcast", "horizon.SubmitTransaction", resp, [raw |-> tx])
        /\ IF resp = "error" THEN Fail("submit transaction") ELSE Return("stellarhash")

AptosAddresses == {"0xa11ce", "0xb0b"}

AptosWallets == {[Address |-> "0xa11ce", PublicKey |-> Ed25519KeyHex]}

\* the wallet lookup and the address checks
AptosGetWallet ==
    /\ pc = "start"
    /\ chain = "aptos"
    /\ UNCHANGED <<arg, ret, helper>>
    /\ UNCHANGED <<chain, amountArg, destination, feeRate, utxos, amountSats, sel, tx,
                   signIdx, chainState>>
    /\ \E resp \in PrivyResponses, w \in AptosWallets :
        /\ Called("wallet", "privy.wallets.get", resp, NoPayload)
        /\ IF PrivyFails(resp)
           THEN Fail("get wallet") /\ UNCHANGED wallet
           ELSE /\ wallet' = WalletsGet(resp, w, "")
                /\ IF Len(wallet'.PublicKey) = 0 THEN Fail("wallet has no public key")
                   ELSE IF wallet'.Address \notin AptosAddresses
                   THEN Fail("invalid sender address")
                   ELSE IF destination \notin AptosAddresses
                   THEN Fail("invalid recipient address")
                   ELSE pc' = "state" /\ UNCHANGED result

\* BuildTransaction: the SDK reads the account's sequence number and the chain id
AptosBuildTransaction ==
    /\ pc = "state"
    /\ chain = "aptos"
    /\ UNCHANGED <<arg, ret, helper>>
    /\ UNCHANGED <<chain, amountArg, destination, feeRate, utxos, amountSats, sel,
                   signIdx, wallet>>
    /\ \E resp \in SdkResponses :
        /\ Called("chain", "aptos.BuildTransaction", resp, NoPayload)
        /\ IF resp = "error"
           THEN Fail("failed to build transaction") /\ UNCHANGED <<chainState, tx>>
           ELSE /\ chainState' = [SequenceNumber |-> 3]
                /\ tx' = [sender |-> wallet.Address, sequenceNumber |-> 3,
                          function |-> "0x1::aptos_account::transfer",
                          args |-> <<destination, ParseUint(amountArg).val>>]
                /\ pc' = "sign"
                /\ UNCHANGED result

AptosSign ==
    /\ pc = "sign"
    /\ chain = "aptos"
    /\ UNCHANGED <<arg, ret, helper>>
    /\ UNCHANGED <<chain, amountArg, destination, feeRate, utxos, amountSats, sel,
                   signIdx, wallet, chainState>>
    /\ \E resp \in PrivyResponses, sig \in ShortSignatures :
        LET dec    == decodeHex(RawSignSignature(resp, sig))
            pk     == decodeHex(wallet.PublicKey)
            pubKey == IF Len(pk.bytes) = 33 /\ pk.bytes[1] = 0 THEN Tail(pk.bytes)
                      ELSE pk.bytes
        IN  /\ Called("oracle", "privy.raw_sign", resp, [hash |-> [signingMessage |-> tx]])
            /\ IF PrivyFails(resp) THEN Fail("failed to sign") /\ UNCHANGED tx
               ELSE IF dec.err THEN Fail("failed to decode signature") /\ UNCHANGED tx
               ELSE IF pk.err THEN Fail("failed to decode public key") /\ UNCHANGED tx
               ELSE IF Len(pubKey) # 32 THEN Fail("failed to parse public key") /\ UNCHANGED tx
               ELSE /\ tx' = [rawTxn |-> tx,
                              authenticator |-> [PubKey |-> pubKey,
                                                 Sig |-> ZeroPadRight(dec.bytes, 64)]]
                    /\ pc' = "broadcast"
                    /\ UNCHANGED result

AptosSubmitTransaction ==
    /\ pc = "broadcast"
    /\ chain = "aptos"
    /\ UNCHANGED <<arg, ret, helper>>
    /\ UNCHANGED <<chain, amountArg, destination, feeRate, utxos, amountSats, sel,
                   signIdx, wallet, chainState, tx>>
    /\ \E resp \in SdkResponses :
        /\ Called("broadcast", "aptos.SubmitTransaction", resp, [raw |-> tx])
        /\ IF resp = "error" THEN Fail("failed to submit transaction")
           ELSE Return("0xaptoshash")

(***************************************************************************)
(* The Transfer specification: one call of one chain's Helper.Transfer     *)
(* against an environment that answers every external call with any        *)
(* response class.                                                         *)
(***************************************************************************)
DefaultFeeRate == 10

\* amount arguments: "50000", "abc", "", "99999999", "9223372036854775807"
AmountArgs ==
    {<<"5", "0", "0", "0", "0">>,
     <<"a", "b", "c">>,
     <<>>,
     <<"9", "9", "9", "9", "9", "9", "9", "9">>,
     <<"9", "2", "2", "3", "3", "7", "2", "0", "3", "6", "8", "5", "4", "7", "7", "5", "8", "0", "7">>}

Chains ==
    {"bitcoin", "near", "ton", "starknet", "cosmos", "sui", "tron", "solana", "stellar",
     "aptos", "ethereum"}

\* the adapters that sign a digest through RawSign and broadcast themselves
RawSignChains == {"bitcoin", "near", "ton", "cosmos", "sui", "starknet"}

Destinations(c) ==
    IF c = "bitcoin" THEN {"1A1zP1eP5QGefi2DMPTfTL5SLmv7DivfNa", "not-an-address"}
    ELSE IF c = "starknet" THEN {<<"0", "x", "7", "b">>}
    ELSE IF c = "solana" THEN {"SoLBob11111", "not-an-address"}
    ELSE IF c = "stellar" THEN {"GBOB"}
    ELSE IF c = "aptos" THEN {"0xb0b"}
    ELSE {"dest"}

\* math.MinInt64 as decimal text, an amount strconv.ParseInt accepts
MinInt64Text ==
    <<"-", "9", "2", "2", "3", "3", "7", "2", "0", "3", "6", "8", "5", "4", "7", "7", "5", "8", "0", "8">>

\* aptos takes the amount as a uint64, never as a string
AmountArgsOf(c) ==
    IF c = "aptos" THEN {a \in AmountArgs : ~ParseUint(a).err}
    ELSE IF c = "bitcoin" THEN AmountArgs \cup {MinInt64Text, <<"0">>}
    ELSE IF c \in {"tron", "near", "starknet"} THEN AmountArgs \cup {<<"0">>}
    ELSE AmountArgs

Init ==
    /\ pc = "start"
    /\ chain \in Chains
    /\ amountArg \in AmountArgsOf(chain)
    /\ destination \in Destinations(chain)
    /\ feeRate = I64(DefaultFeeRate)
    /\ calls = <<>>
    /\ wallet = NoWallet
    /\ result = NoResult
    /\ utxos = <<>>
    /\ amountSats = I64(0)
    /\ sel = NoSelection
    /\ tx = NoTx
    /\ signIdx = 0
    /\ chainState = NoState
    /\ arg = NoArg
    /\ ret = NoRet
    /\ helper = NoHelper

Next ==
    \/ BtcGetWallet
    \/ BtcFetchUTXOs
    \/ BtcSignInput
    \/ BtcBroadcast
    \/ NearGetWallet
    \/ NearQueryAccessKey
    \/ NearQueryBlock
    \/ NearSign
    \/ NearBroadcast
    \/ TonGetWallet
    \/ TonGetSeqno
    \/ TonSign
    \/ TonSendBoc
    \/ StarkGetWallet
    \/ StarkGetNonce
    \/ StarkSign
    \/ StarkAddInvokeTransaction
    \/ CosmosGetWallet
    \/ CosmosQueryAccount
    \/ CosmosSign
    \/ CosmosBroadcast
    \/ SuiGetWallet
    \/ SuiGetGasCoin
    \/ SuiUnsafeTransferSui
    \/ SuiSign
    \/ SuiExecuteTransactionBlock
    \/ TronGetWallet
    \/ TronCreateTransaction
    \/ TronSign
    \/ TronBroadcastTransaction
    \/ SolanaGetWallet
    \/ SolanaGetLatestBlockhash
    \/ SolanaSignAndSend
    \/ EthereumSendTransaction
    \/ StellarGetWallet
    \/ StellarAccountDetail
    \/ StellarSign
    \/ StellarSubmitTransaction
    \/ AptosGetWallet
    \/ AptosBuildTransaction
    \/ AptosSign
    \/ AptosSubmitTransaction

Spec == Init /\ [][Next]_vars

(***************************************************************************)
(* The integers the claims speak about: exact sums in WideLimbs limbs.     *)
(***************************************************************************)
W(a) == Ext(a, WideLimbs)

RECURSIVE SumValues(_, _)
SumValues(us, n) ==
    IF n = 0 THEN Zero(WideLimbs) ELSE Add(SumValues(us, n - 1), W(us[n].Value))

\* amount + (11 + 68*n + 62) * rate, exactly
Needed(amount, rate, n) == Add(W(amount), MulSmall(W(rate), VSize(n)))

\* the prefix of length n covers amount + fee(n)
PrefixCovers(us, amount, rate, n) ==
    Ge(SumValues(us, n), Needed(amount, rate, n))

\* C1: whenever selectUTXOs returns a selection instead of the insufficient-funds
\* error, the sum of the selected values is at least amount + the returned fee.
C1_SelectionCoversAmountPlusFee ==
    (pc = "selected" /\ ~sel.err) =>
        Ge(SumValues(sel.selected, Len(sel.selected)),
           Add(W(amountSats), W(sel.fee)))

\* C9: selectUTXOs returns the shortest prefix of the list that covers
\* amount + (11 + 68*n + 62) * feeRate, with that fee, and fails exactly when no
\* prefix covers it.
C9_GreedyShortestPrefix ==
    pc = "selected" =>
        LET covering == {n \in 1..Len(utxos) : PrefixCovers(utxos, amountSats, feeRate, n)}
        IN  /\ sel.err <=> covering = {}
            /\ ~sel.err =>
                   LET n == Len(sel.selected)
                   IN  /\ n \in covering
                       /\ \A m \in covering : n <= m
                       /\ sel.selected = SubSeq(utxos, 1, n)
                       /\ W(sel.fee) = MulSmall(W(feeRate), VSize(n))

(***************************************************************************)
(* Properties of one Transfer call.                                        *)
(***************************************************************************)
CallsOfKind(k) == SelectSeq(calls, LAMBDA c : c.kind = k)

IsSigningCall(c) == c.kind \in {"oracle", "sign_and_send"}

IsSubmission(c) == c.kind \in {"broadcast", "sign_and_send"}

\* a string that is no decimal integer
MalformedAmount(a) == ~BigSetString(a).ok

\* C2: in every adapter's Transfer a malformed amount string is rejected with an
\* invalid-amount error before any network call: no external call is ever made
\* for it, and the call ends in the invalid-amount error.
C2_MalformedAmountRejectedBeforeAnyCall ==
    MalformedAmount(amountArg) =>
        /\ calls = <<>>
        /\ pc = "done" => (result.status = "error" /\ result.err = "invalid amount")

\* what a node reads from an address text: "0x" and hex digits, as a felt
FeltOfAddressText(s) ==
    IF Len(s) > 2 /\ s[1] = "0" /\ s[2] = "x" /\ \A i \in 3..Len(s) : IsHexChar(s[i])
    THEN [ok |-> TRUE, felt |-> [reduced |-> FALSE, of |-> HexValue(Tail2(s), Len(s) - 2)]]
    ELSE [ok |-> FALSE, felt |-> [reduced |-> FALSE, of |-> Zero(WideLimbs)]]

\* what a node reads from "0x" + Text(16): a felt unless the text carries a sign
FeltOfText(t) == [ok |-> t.sign = "", felt |-> [reduced |-> FALSE, of |-> t.digits]]

\* the broadcast call b carries exactly the content the oracle call o signed
SameContent(o, b) ==
    CASE chain = "bitcoin" ->
            /\ o.sent.hash.prevouts =
                   [i \in 1..Len(b.sent.raw.inputs) |-> b.sent.raw.inputs[i].PreviousOutPoint]
            /\ o.sent.hash.outputs = b.sent.raw.outputs
      [] chain = "near" -> o.sent.hash.of = b.sent.raw.of.transaction
      [] chain = "ton" ->
            LET msg  == o.sent.hash.of
                body == b.sent.raw.of
            IN  /\ Len(body) >= Len(msg)
                /\ SubSeq(body, Len(body) - Len(msg) + 1, Len(body)) = msg
      [] chain = "cosmos" ->
            /\ o.sent.hash.of.proto.BodyBytes = b.sent.raw.of.proto.BodyBytes
            /\ o.sent.hash.of.proto.AuthInfoBytes = b.sent.raw.of.proto.AuthInfoBytes
      [] chain = "sui" ->
            o.sent.hash.of = <<0, 0, 0>> \o Base64Decode(b.sent.raw.txBytes).bytes
      [] chain = "starknet" ->
            LET signed   == o.sent.hash.elements
                sent     == b.sent.raw
                hashed   == signed[5].of.elements
                calldata == SubSeq(hashed, 1, Len(hashed) - 1)
            IN  /\ FeltOfAddressText(sent.sender_address).ok
                /\ signed[3] = FeltOfAddressText(sent.sender_address).felt
                /\ Len(calldata) = Len(sent.calldata)
                /\ \A i \in 1..Len(calldata) :
                       /\ FeltOfText(sent.calldata[i]).ok
                       /\ calldata[i] = FeltOfText(sent.calldata[i]).felt
                /\ signed[6] = FeltOfText(sent.max_fee).felt
                /\ signed[8] = FeltOfText(sent.nonce).felt

\* C3: in every raw-sign adapter that reaches broadcast, the content broadcast is
\* exactly the content whose digest was sent to the oracle: every oracle call of
\* the run signed the sender, recipient, amount, nonce, fee and body bytes that
\* the broadcast call carries.
C3_BroadcastIsWhatWasSigned ==
    chain \in RawSignChains =>
        \A i \in 1..Len(calls), k \in 1..Len(calls) :
            (calls[i].kind = "oracle" /\ calls[k].kind = "broadcast") =>
                SameContent(calls[i], calls[k])

\* the signature the oracle answered input j with, decoded
OracleSigBytes(c) == decodeHex(c.got.signature)

\* C4: Bitcoin Transfer makes one oracle call per selected input, in input order,
\* the j-th carrying the BIP143 digest of input j with that input's own
\* previous-output value, no digest shared between inputs; the broadcast comes
\* only after every input has the witness [DER signature + SIGHASH_ALL, public key].
C4_OneOracleCallPerInputInOrder ==
    chain = "bitcoin" =>
        LET oc  == CallsOfKind("oracle")
            bc  == CallsOfKind("broadcast")
            pk  == decodeHex(wallet.PublicKey).bytes
            outpoint(j) == [Hash  |-> NewHashFromStr(sel.selected[j].TxID).hash,
                            Index |-> sel.selected[j].Vout]
        IN  /\ Len(oc) <= Len(sel.selected)
            /\ \A j \in 1..Len(oc) :
                   oc[j].sent.hash =
                       [alg        |-> "bip143",
                        prevouts   |-> [i \in 1..Len(sel.selected) |-> outpoint(i)],
                        outpoint   |-> outpoint(j),
                        scriptCode |-> [p2pkh |-> [alg |-> "hash160", of |-> pk]],
                        amount     |-> sel.selected[j].Value,
                        outputs    |-> tx.TxOut,
                        hashType   |-> 1]
            /\ \A j \in 1..Len(oc), k \in 1..Len(oc) :
                   j # k => oc[j].sent.hash # oc[k].sent.hash
            /\ \A i \in 1..Len(calls), k \in 1..Len(calls) :
                   (calls[i].kind = "broadcast" /\ calls[k].kind = "oracle") => k < i
            /\ Len(bc) > 0 =>
                   /\ Len(bc) = 1
                   /\ Len(oc) = Len(sel.selected)
                   /\ bc[1].sent.raw.inputs = tx.TxIn
                   /\ \A i \in 1..Len(tx.TxIn) :
                          LET w   == tx.TxIn[i].Witness
                              sig == OracleSigBytes(oc[i]).bytes
                          IN  /\ Len(w) = 2
                              /\ w[2] = pk
                              /\ w[1][Len(w[1])] = 1
                              /\ Len(sig) >= 64 =>
                                     w[1] = derEncodeSignature(SubSeq(sig, 1, 32),
                                                               SubSeq(sig, 33, 64)) \o <<1>>

\* two inputs were signed one after the other and the transaction went out
C4_Witness ==
    /\ chain = "bitcoin"
    /\ Len(sel.selected) = 2
    /\ Len(CallsOfKind("oracle")) = 2
    /\ result.status = "ok"

LookupFailed(c) == c.kind \in {"wallet", "chain"} /\ c.resp # "ok"

\* C5: when the wallet lookup or a chain-state lookup fails (transport error,
\* non-success status, RPC error, or a response without the queried data),
\* Transfer returns an error and neither calls the oracle nor broadcasts.
C5_LookupFailureStopsTransfer ==
    \A i \in 1..Len(calls) :
        LookupFailed(calls[i]) =>
            /\ \A k \in (i + 1)..Len(calls) :
                   ~IsSigningCall(calls[k]) /\ ~IsSubmission(calls[k])
            /\ pc = "done" => result.status = "error"

\* a signature string that is no hex string or decodes to fewer than 64 bytes
MalformedSignature(sig) == decodeHex(sig).err \/ Len(decodeHex(sig).bytes) < 64

SigningFailures == {"sign input", "decode signature"}

\* C6: when the oracle answers a Bitcoin input with a malformed signature, in
\* particular one shorter than 64 bytes, Transfer ends in a signing-failure error
\* value: no crash, no broadcast.
C6_MalformedSignatureIsSigningFailure ==
    (/\ chain = "bitcoin"
     /\ \E i \in 1..Len(calls) :
            /\ calls[i].kind = "oracle"
            /\ ~PrivyFails(calls[i].resp)
            /\ MalformedSignature(calls[i].got.signature))
    => /\ \A k \in 1..Len(calls) : calls[k].kind # "broadcast"
       /\ pc = "done"
       /\ result.status = "error"
       /\ result.err \in SigningFailures

\* C7: no adapter retries: every external call is issued at most once (one oracle
\* call per required signature), no call follows a failed one, and a run whose
\* last call failed returns an error.
C7_NoRetryAbortOnFirstFailure ==
    /\ \A i \in 1..Len(calls), k \in 1..Len(calls) :
           (i # k /\ calls[i].name = calls[k].name) =>
               (chain = "bitcoin" /\ calls[i].kind = "oracle")
    /\ Len(CallsOfKind("oracle")) <= (IF chain = "bitcoin" THEN Len(sel.selected) ELSE 1)
    /\ \A i \in 1..Len(calls) :
           calls[i].resp # "ok" =>
               /\ i = Len(calls)
               /\ pc = "done"
               /\ result.status = "error"

StepRank(k) ==
    CASE k = "wallet" -> 1
      [] k = "chain" -> 2
      [] k = "build" -> 3
      [] k = "oracle" -> 4
      [] k = "sign_and_send" -> 4
      [] k = "broadcast" -> 5

\* C8: the steps come in the order wallet lookup, chain-state query, build,
\* oracle, broadcast; the oracle is called only after the wallet lookup and the
\* chain-state queries succeeded, broadcast only after the oracle returned a
\* signature, and a transaction id is returned only after the broadcast succeeded.
C8_StepOrder ==
    /\ \A i \in 1..Len(calls), k \in 1..Len(calls) :
           i < k => StepRank(calls[i].kind) <= StepRank(calls[k].kind)
    /\ \A k \in 1..Len(calls) :
           IsSigningCall(calls[k]) =>
               /\ \E i \in 1..(k - 1) : calls[i].kind = "wallet"
               /\ \A i \in 1..(k - 1) :
                      calls[i].kind \in {"wallet", "chain"} => calls[i].resp = "ok"
    /\ \A k \in 1..Len(calls) :
           calls[k].kind = "broadcast" =>
               /\ \E i \in 1..(k - 1) : calls[i].kind = "oracle"
               /\ \A i \in 1..(k - 1) : calls[i].kind = "oracle" => calls[i].resp = "ok"
    /\ result.status = "ok" =>
           /\ Len(calls) > 0
           /\ IsSubmission(calls[Len(calls)])
           /\ calls[Len(calls)].resp = "ok"

\* the UTXO list of the helper's own transfer test
TestUTXOs == <<[TxID |-> <<"a", "1">>, Vout |-> 0, Value |-> I64(100000)]>>

TestCase ==
    /\ chain = "bitcoin"
    /\ amountArg = <<"5", "0", "0", "0", "0">>
    /\ destination \in BtcAddresses
    /\ feeRate = I64(10)
    /\ utxos = TestUTXOs

BtcBuilt == chain = "bitcoin" /\ tx # NoTx

\* totalInput - amount - fee, exactly
ExactChange == Sub(Sub(W(sel.totalInput), W(amountSats)), W(sel.fee))

\* C11: buildTx creates one input per selected UTXO in the same order, exactly
\* one payment output of value amount, and a change output to the wallet's own
\* address if and only if totalInput - amount - fee > 546; when present its
\* value is exactly totalInput - amount - fee, when absent the transaction has
\* a single output.
C11_BuildTxInputsPaymentChange ==
    BtcBuilt =>
        /\ Len(tx.TxIn) = Len(sel.selected)
        /\ \A i \in 1..Len(tx.TxIn) :
               tx.TxIn[i].PreviousOutPoint =
                   [Hash  |-> NewHashFromStr(sel.selected[i].TxID).hash,
                    Index |-> sel.selected[i].Vout]
        /\ Len(tx.TxOut) >= 1
        /\ tx.TxOut[1] = [Value |-> amountSats, PkScript |-> PayToAddrScript(destination)]
        /\ Len(tx.TxOut) = IF Lt(W(I64(DustThreshold)), ExactChange) THEN 2 ELSE 1
        /\ Len(tx.TxOut) = 2 =>
               /\ W(tx.TxOut[2].Value) = ExactChange
               /\ tx.TxOut[2].PkScript = PayToAddrScript(wallet.Address)

(***************************************************************************)
(* bitcoin: canonicalizeInt and derEncodeSignature called on their own.    *)
(* Transfer hands them the two 32-byte halves of a signature, the unit     *)
(* tests byte strings of one to three bytes; neither is ever empty.        *)
(***************************************************************************)
MaxDerBytes == 3

DerByteValues == {0, 1, 128, 255}

\* 32-byte halves of a signature: all zero, small, high bit set, zero then high bit
DerHalves ==
    {[i \in 1..32 |-> 0],
     [i \in 1..32 |-> IF i = 32 THEN 1 ELSE 0],
     [i \in 1..32 |-> IF i = 1 THEN 128 ELSE 0],
     [i \in 1..32 |-> IF i = 2 THEN 200 ELSE 0],
     [i \in 1..32 |-> 255],
     SubSeq(TestSigBytes, 1, 32),
     SubSeq(TestSigBytes, 33, 64)}

DerByteStrings ==
    UNION {[1..n -> DerByteValues] : n \in 1..MaxDerBytes} \cup DerHalves

InitDer ==
    /\ pc = "der"
    /\ arg \in [r : DerByteStrings, s : DerByteStrings]
    /\ ret = NoRet
    /\ utxos = <<>>
    /\ amountSats = I64(0)
    /\ feeRate = I64(DefaultFeeRate)
    /\ sel = NoSelection
    /\ NoTransfer

CanonicalizeCall ==
    /\ pc = "der"
    /\ ret' = canonicalizeInt(arg.r)
    /\ pc' = "canonicalized"
    /\ UNCHANGED <<arg, utxos, amountSats, feeRate, sel>>
    /\ UNCHANGED transferVars

DerEncodeCall ==
    /\ pc = "der"
    /\ ret' = derEncodeSignature(arg.r, arg.s)
    /\ pc' = "encoded"
    /\ UNCHANGED <<arg, utxos, amountSats, feeRate, sel>>
    /\ UNCHANGED transferVars

NextDer == CanonicalizeCall \/ DerEncodeCall

SpecDer == InitDer /\ [][NextDer]_vars

\* two big-endian byte strings denote the same non-negative integer: they
\* differ in leading zero bytes only
SameValue(a, b) == StripLeadingZeros(a) = StripLeadingZeros(b)

\* a minimal non-negative ASN.1 INTEGER body: at least one byte, the sign bit
\* clear, and no leading 0x00 that the sign bit of the next byte does not need
IsMinimalInteger(v) ==
    /\ Len(v) >= 1
    /\ v[1] < 128
    /\ Len(v) > 1 /\ v[1] = 0 => v[2] >= 128

DerIntegerBodies(der) ==
    LET rLen == der[4]
        sLen == der[6 + rLen]
    IN  [r |-> SubSeq(der, 5, 4 + rLen),
         s |-> SubSeq(der, 7 + rLen, 6 + rLen + sLen)]

\* C13: canonicalizeInt(canonicalizeInt(x)) = canonicalizeInt(x); the output of
\* derEncodeSignature(r, s) is 0x30, total length, 0x02, len(r'), r', 0x02,
\* len(s'), s' with the length bytes equal to the actual lengths, and decoding
\* its two INTEGER bodies and encoding them again yields the same bytes.
C13_DerEncodingIdempotent ==
    /\ pc = "canonicalized" => canonicalizeInt(ret) = ret
    /\ pc = "encoded" =>
           LET rEnc == canonicalizeInt(arg.r)
               sEnc == canonicalizeInt(arg.s)
               back == DerIntegerBodies(ret)
           IN  /\ ret = <<48, Len(ret) - 2, 2, Len(rEnc)>> \o rEnc
                            \o <<2, Len(sEnc)>> \o sEnc
               /\ Len(ret) = 6 + Len(rEnc) + Len(sEnc)
               /\ back.r = rEnc
               /\ back.s = sEnc
               /\ derEncodeSignature(back.r, back.s) = ret

\* a signature whose r needs the sign-bit padding and whose s loses its leading
\* zeros was encoded
C13_Witness ==
    /\ pc = "encoded"
    /\ Len(arg.r) = 32
    /\ Len(arg.s) = 32
    /\ Len(canonicalizeInt(arg.r)) = 33
    /\ Len(canonicalizeInt(arg.s)) = 1
    /\ Len(ret) = 40

(***************************************************************************)
(* Signature reassembly: what reaches the broadcast, against what the       *)
(* oracle answered.                                                         *)
(***************************************************************************)
\* the bytes of the signature the oracle call at position k answered with
OracleBytes(k) == decodeHex(calls[k].got.signature).bytes

\* position k holds a broadcast of the named chain, preceded by its oracle call
BroadcastAt(c, k) ==
    /\ chain = c
    /\ k \in 2..Len(calls)
    /\ calls[k].kind = "broadcast"
    /\ calls[k - 1].kind = "oracle"

\* C14: the NEAR signed transaction that is broadcast is serializedTx, the byte
\* 0x00, then exactly 64 signature bytes: the first 64 bytes of the oracle
\* signature when it has 64 or more, otherwise the oracle signature zero-padded
\* on the right to 64 bytes; 65 bytes follow serializedTx for every oracle output.
C14_NearSignedTxLayout ==
    \A k \in 1..Len(calls) :
        BroadcastAt("near", k) =>
            LET signed == calls[k].sent.raw.of
                o      == OracleBytes(k - 1)
            IN  /\ signed.transaction = calls[k - 1].sent.hash.of
                /\ signed.keyType = 0
                /\ Len(signed.signature) = 64
                /\ 1 + Len(signed.signature) = 65
                /\ signed.signature =
                       IF Len(o) >= 64 THEN SubSeq(o, 1, 64)
                       ELSE o \o [i \in 1..(64 - Len(o)) |-> 0]

\* a three-byte oracle signature was padded and broadcast
C14_Witness ==
    /\ BroadcastAt("near", Len(calls))
    /\ Len(OracleBytes(Len(calls) - 1)) = 3
    /\ calls[Len(calls)].sent.raw.of.signature[3] = 239
    /\ calls[Len(calls)].sent.raw.of.signature[64] = 0

\* C15: the TON external message that is broadcast is signature followed by
\* signingMessage with a signature part of exactly 64 bytes: an oracle signature
\* shorter than 64 bytes is zero-padded to 64 bytes before the envelope is
\* assembled, so the signing message always starts at byte offset 64.
C15_TonSignaturePartIs64Bytes ==
    \A k \in 1..Len(calls) :
        BroadcastAt("ton", k) =>
            LET external   == calls[k].sent.raw.of
                signingMsg == calls[k - 1].sent.hash.of
                o          == OracleBytes(k - 1)
            IN  /\ Len(external) = 64 + Len(signingMsg)
                /\ SubSeq(external, 65, Len(external)) = signingMsg
                /\ Len(o) < 64 =>
                       SubSeq(external, 1, 64) = o \o [i \in 1..(64 - Len(o)) |-> 0]

\* C16: every Cosmos transaction that is broadcast carries exactly one signature
\* in TxRaw and that signature is exactly 64 bytes: a 65-byte oracle signature
\* is reduced to its first 64 bytes, and no signature of any other length
\* reaches the envelope.
C16_CosmosSignatureIs64Bytes ==
    \A k \in 1..Len(calls) :
        BroadcastAt("cosmos", k) =>
            LET txRaw == calls[k].sent.raw.of.proto
                o     == OracleBytes(k - 1)
            IN  /\ Len(txRaw.Signatures) = 1
                /\ Len(txRaw.Signatures[1]) = 64
                /\ Len(o) = 65 => txRaw.Signatures[1] = SubSeq(o, 1, 64)

\* C17: StarkNet Transfer submits a signature [r, s] in which r and s are each
\* "0x" plus exactly 64 hex characters: the oracle's hex signature, its 0x prefix
\* removed, is left-padded with zeros to 128 characters when shorter, r is
\* characters 0..63 and s characters 64..127, and characters beyond 128 are dropped.
C17_StarkSignatureSplit ==
    \A k \in 1..Len(calls) :
        BroadcastAt("starknet", k) =>
            LET sigHex == TrimPrefix0x(calls[k - 1].got.signature)
                padded == IF Len(sigHex) < 128
                          THEN [i \in 1..(128 - Len(sigHex)) |-> "0"] \o sigHex
                          ELSE sigHex
                r      == calls[k].sent.raw.signature[1]
                sHalf  == calls[k].sent.raw.signature[2]
            IN  /\ Len(calls[k].sent.raw.signature) = 2
                /\ r = <<"0", "x">> \o SubSeq(padded, 1, 64)
                /\ sHalf = <<"0", "x">> \o SubSeq(padded, 65, 128)
                /\ Len(r) = 66 /\ Len(sHalf) = 66
                /\ (\A i \in 1..Len(sigHex) : IsHexChar(sigHex[i])) =>
                       \A i \in 3..66 : IsHexChar(r[i]) /\ IsHexChar(sHalf[i])

\* a six-character oracle signature was padded on the left, split and submitted
C17_Witness ==
    /\ BroadcastAt("starknet", Len(calls))
    /\ calls[Len(calls) - 1].got.signature = <<"0", "x", "a", "b", "c", "d", "e", "f">>
    /\ calls[Len(calls)].sent.raw.signature[1] = <<"0", "x">> \o [i \in 1..64 |-> "0"]
    /\ SubSeq(calls[Len(calls)].sent.raw.signature[2], 61, 66) = <<"a", "b", "c", "d", "e", "f">>

\* the response class of a broadcast whose tx_response carries a non-zero code
NonZeroCode(resp) == resp = "rejected"

\* C18: when the Cosmos broadcast endpoint answers with a non-zero
\* tx_response.code, Transfer returns a broadcast error and no transaction hash;
\* a transaction hash is returned only when the code is 0.
C18_CosmosNonZeroCodeIsBroadcastError ==
    (chain = "cosmos" /\ Len(calls) > 0 /\ calls[Len(calls)].kind = "broadcast") =>
        /\ NonZeroCode(calls[Len(calls)].resp) =>
               /\ pc = "done"
               /\ result.status = "error"
               /\ result.err = "broadcast failed (code)"
               /\ result.txid = ""
        /\ result.status = "ok" => ~NonZeroCode(calls[Len(calls)].resp)

\* the node answered the broadcast with a non-zero code and Transfer failed
C18_Witness ==
    /\ chain = "cosmos"
    /\ pc = "done"
    /\ Len(calls) = 4
    /\ calls[4].kind = "broadcast"
    /\ NonZeroCode(calls[4].resp)
    /\ result.status = "error"

(***************************************************************************)
(* The operations the helpers declare without implementing them, each      *)
(* called on its own with arguments of every kind.                         *)
(***************************************************************************)
UnimplementedOps ==
    {<<"starknet", "TransferERC20">>, <<"tron", "TransferTRC20">>,
     <<"cosmos", "Delegate">>, <<"cosmos", "Undelegate">>,
     <<"sui", "TransferObject">>, <<"stellar", "PaymentWithAsset">>}

WalletIDs == {"", "wallet-1"}

\* token contracts, validators, object ids, destinations
OpAddresses == {"", "0x49d36570d4e46f48e99674bd3fcc84644ddd6b96"}

\* fmt.Errorf("<package>: <operation> not yet implemented"), word by word
NotYetImplemented(pkg, op) == <<pkg, op, "not", "yet", "implemented">>

InitUnimplemented ==
    /\ pc = "call"
    /\ arg \in [op : UnimplementedOps, walletID : WalletIDs, address : OpAddresses,
                destination : OpAddresses, amount : AmountArgs]
    /\ ret = NoRet
    /\ utxos = <<>>
    /\ amountSats = I64(0)
    /\ feeRate = I64(DefaultFeeRate)
    /\ sel = NoSelection
    /\ NoTransfer

\* an operation that looks the wallet up before it gives up
ReturnAfterWalletLookup(pkg, op) ==
    /\ pc = "call"
    /\ arg.op = <<pkg, op>>
    /\ ret' = [value |-> "", err |-> NotYetImplemented(pkg, op)]
    /\ pc' = "returned"
    /\ Called("wallet", "privy.wallets.get", "ok", NoPayload)
    /\ UNCHANGED <<arg, utxos, amountSats, feeRate, sel>>
    /\ UNCHANGED <<chain, amountArg, destination, wallet, result, tx, signIdx, chainState,
                   helper>>

\* return "", fmt.Errorf(...): nothing else happens
ReturnNotYetImplemented(pkg, op) ==
    /\ pc = "call"
    /\ arg.op = <<pkg, op>>
    /\ ret' = [value |-> "", err |-> NotYetImplemented(pkg, op)]
    /\ pc' = "returned"
    /\ UNCHANGED <<arg, utxos, amountSats, feeRate, sel>>
    /\ UNCHANGED transferVars

StarkTransferERC20 == ReturnNotYetImplemented("starknet", "TransferERC20")

TronTransferTRC20 == ReturnNotYetImplemented("tron", "TransferTRC20")

CosmosDelegate == ReturnNotYetImplemented("cosmos", "Delegate")

CosmosUndelegate == ReturnNotYetImplemented("cosmos", "Undelegate")

SuiTransferObject == ReturnNotYetImplemented("sui", "TransferObject")

StellarPaymentWithAsset == ReturnNotYetImplemented("stellar", "PaymentWithAsset")

NextUnimplemented ==
    \/ StarkTransferERC20
    \/ TronTransferTRC20
    \/ CosmosDelegate
    \/ CosmosUndelegate
    \/ SuiTransferObject
    \/ StellarPaymentWithAsset

SpecUnimplemented == InitUnimplemented /\ [][NextUnimplemented]_vars

\* C19: every unimplemented operation (StarkNet TransferERC20, Tron
\* TransferTRC20, Cosmos Delegate and Undelegate, Sui TransferObject, Stellar
\* PaymentWithAsset) returns a non-nil "not yet implemented" error with an empty
\* result and performs no network call, whatever its arguments.
C19_UnimplementedOperationsOnlyFail ==
    /\ calls = <<>>
    /\ pc = "returned" =>
           /\ ret.value = ""
           /\ Len(ret.err) = 5
           /\ SubSeq(ret.err, 3, 5) = <<"not", "yet", "implemented">>
           /\ <<ret.err[1], ret.err[2]>> = arg.op

\* Undelegate was called with a wallet, a validator and an amount, and returned
C19_Witness ==
    /\ pc = "returned"
    /\ arg.op = <<"cosmos", "Undelegate">>
    /\ arg.walletID = "wallet-1"
    /\ arg.amount = <<"5", "0", "0", "0", "0">>
    /\ ret.err = <<"cosmos", "Undelegate", "not", "yet", "implemented">>

(***************************************************************************)
(* NewHelper of the chain packages.  A Helper is a function from its       *)
(* settings to their values; an Option assigns some of the settings.  The  *)
(* client keeps, per chain, a list of values of any type; NewHelper applies *)
(* those that are Options of its own package.                              *)
(***************************************************************************)
MaxOptions == 2

Opt(pkg, sets) == [pkg |-> pkg, sets |-> sets]

\* a nil *aptos.Client
NilClient == [nil |-> TRUE]

\* the Helper struct literal NewHelper starts from
HelperLiteral(c) ==
    CASE c = "bitcoin"  -> [explorerURL |-> "https://blockstream.info/api",
                            network |-> "mainnet", chainParams |-> "MainNetParams",
                            feeRate |-> 10, httpClient |-> "http.DefaultClient"]
      [] c = "near"     -> [rpcURL |-> "https://rpc.mainnet.near.org",
                            httpClient |-> "http.DefaultClient"]
      [] c = "ton"      -> [rpcURL |-> "https://toncenter.com/api/v2",
                            httpClient |-> "http.DefaultClient"]
      [] c = "tron"     -> [rpcURL |-> "https://api.trongrid.io",
                            httpClient |-> "http.DefaultClient"]
      [] c = "sui"      -> [rpcURL |-> "https://fullnode.mainnet.sui.io:443",
                            httpClient |-> "http.DefaultClient"]
      [] c = "starknet" -> [rpcURL |-> "https://starknet-mainnet.public.blastapi.io",
                            chainID |-> "SN_MAIN", maxFee |-> "1e16",
                            httpClient |-> "http.DefaultClient"]
      [] c = "cosmos"   -> [rpcURL |-> "https://rest.cosmos.directory/cosmoshub",
                            chainID |-> "cosmoshub-4", denom |-> "uatom",
                            gasLimit |-> 200000, feeAmount |-> "5000",
                            httpClient |-> "http.DefaultClient"]
      [] c = "solana"   -> [rpcURL |-> "rpc.MainNetBeta_RPC", caip2 |-> "MainnetCAIP2",
                            rpcClient |-> [url |-> "rpc.MainNetBeta_RPC"]]
      [] c = "stellar"  -> [horizonURL |-> "https://horizon.stellar.org",
                            networkPass |-> "PublicNetworkPassphrase",
                            horizonClient |-> [url |-> "https://horizon.stellar.org"]]
      [] c = "aptos"    -> [aptosClient |-> NilClient]
      [] c = "ethereum" -> [chainID |-> 1]

\* the package's WithTestnet() option
WithTestnet(c) ==
    CASE c = "bitcoin"  -> Opt(c, [network |-> "testnet", chainParams |-> "TestNet3Params",
                                   explorerURL |-> "https://blockstream.info/testnet/api"])
      [] c = "near"     -> Opt(c, [rpcURL |-> "https://rpc.testnet.near.org"])
      [] c = "ton"      -> Opt(c, [rpcURL |-> "https://testnet.toncenter.com/api/v2"])
      [] c = "tron"     -> Opt(c, [rpcURL |-> "https://api.shasta.trongrid.io"])
      [] c = "sui"      -> Opt(c, [rpcURL |-> "https://fullnode.testnet.sui.io:443"])
      [] c = "starknet" -> Opt(c, [rpcURL |-> "https://starknet-sepolia.public.blastapi.io",
                                   chainID |-> "SN_SEPOLIA"])
      [] c = "cosmos"   -> Opt(c, [rpcURL |-> "https://rest.cosmos.directory/theta-testnet-001",
                                   chainID |-> "theta-testnet-001"])
      [] c = "solana"   -> Opt(c, [caip2 |-> "DevnetCAIP2", rpcURL |-> "rpc.DevNet_RPC",
                                   rpcClient |-> [url |-> "rpc.DevNet_RPC"]])
      [] c = "stellar"  -> Opt(c, [horizonURL |-> "https://horizon-testnet.stellar.org",
                                   networkPass |-> "TestNetworkPassphrase",
                                   horizonClient |-> [url |-> "https://horizon-testnet.stellar.org"]])
      [] c = "aptos"    -> Opt(c, [aptosClient |->
                                      [url |-> "https://fullnode.devnet.aptoslabs.com/v1"]])
      [] c = "ethereum" -> Opt(c, [chainID |-> 11155111])

\* options a caller passes: the package's With... functions applied to arguments
HelperOptions(c) ==
    CASE c = "bitcoin"  -> {Opt(c, [feeRate |-> 25]),
                            Opt(c, [explorerURL |-> "https://mempool.space/api"]),
                            Opt(c, [network |-> "mainnet", chainParams |-> "MainNetParams"]),
                            WithTestnet(c)}
      [] c \in {"near", "ton", "tron", "sui"} ->
                           {Opt(c, [rpcURL |-> "https://custom.example"]),
                            Opt(c, [httpClient |-> "customClient"]),
                            WithTestnet(c)}
      [] c = "starknet" -> {Opt(c, [rpcURL |-> "https://custom.example"]),
                            Opt(c, [chainID |-> "SN_CUSTOM"]),
                            Opt(c, [maxFee |-> "5e15"]),
                            WithTestnet(c)}
      [] c = "cosmos"   -> {Opt(c, [chainID |-> "osmosis-1"]),
                            Opt(c, [denom |-> "uosmo"]),
                            Opt(c, [gasLimit |-> 300000]),
                            WithTestnet(c)}
      [] c = "solana"   -> {Opt(c, [rpcURL |-> "https://custom.example",
                                    rpcClient |-> [url |-> "https://custom.example"]]),
                            Opt(c, [caip2 |-> "solana:custom"]),
                            WithTestnet(c)}
      [] c = "stellar"  -> {Opt(c, [horizonURL |-> "https://custom.example",
                                    horizonClient |-> [url |-> "https://custom.example"]]),
                            Opt(c, [horizonClient |-> [mock |-> TRUE]]),
                            WithTestnet(c)}
      \* WithNodeURL, WithAptosClient(c), WithAptosClient(nil), WithTestnet
      [] c = "aptos"    -> {Opt(c, [aptosClient |-> [url |-> "https://custom.example"]]),
                            Opt(c, [aptosClient |-> [given |-> TRUE]]),
                            Opt(c, [aptosClient |-> NilClient]),
                            WithTestnet(c)}
      [] c = "ethereum" -> {Opt(c, [chainID |-> 137]),
                            Opt(c, [chainID |-> 1]),
                            WithTestnet(c)}

\* a value stored for the chain that is no Option of its package
ForeignValue == Opt("other", [httpClient |-> "foreignClient"])

\* opt(h): the settings the option assigns take its values
applyOption(h, o) ==
    [k \in DOMAIN h |-> IF k \in DOMAIN o.sets THEN o.sets[k] ELSE h[k]]

\* for _, opt := range opts { opt(h) }
RECURSIVE applyOptions(_, _)
applyOptions(h, opts) ==
    IF opts = <<>> THEN h ELSE applyOptions(applyOption(h, Head(opts)), Tail(opts))

\* for _, raw := range client.ChainOptions(chain) { if o, ok := raw.(Option); ok { o(h) } }
applyChainOptions(h, c, raws) ==
    applyOptions(h, SelectSeq(raws, LAMBDA raw : raw.pkg = c))

\* aptos.NewClient(aptos.MainnetConfig)
AptosMainnetClient == [url |-> "aptos.MainnetConfig"]

\* NewHelper(client, opts...) of package c, for a client created with or without
\* WithTestnet and holding chainOpts for the chain.  The aptos package creates
\* its mainnet client last, and only if no client is set by then.
NewHelper(c, testnet, chainOpts, opts) ==
    LET h0 == HelperLiteral(c)
        h1 == IF testnet THEN applyOption(h0, WithTestnet(c)) ELSE h0
        h2 == applyChainOptions(h1, c, chainOpts)
        h3 == applyOptions(h2, opts)
    IN  IF c = "aptos" /\ h3.aptosClient = NilClient
        THEN [h3 EXCEPT !.aptosClient = AptosMainnetClient]
        ELSE h3

OptionLists(S) == UNION {[1..n -> S] : n \in 0..MaxOptions}

InitHelper ==
    /\ pc = "new"
    /\ \E c \in Chains :
           arg \in [chain : {c}, testnet : BOOLEAN,
                    chainOpts : OptionLists(HelperOptions(c) \cup {ForeignValue}),
                    opts : OptionLists(HelperOptions(c))]
    /\ ret = NoRet
    /\ utxos = <<>>
    /\ amountSats = I64(0)
    /\ feeRate = I64(DefaultFeeRate)
    /\ sel = NoSelection
    /\ NoTransfer

NewHelperCall ==
    /\ pc = "new"
    /\ ret' = NewHelper(arg.chain, arg.testnet, arg.chainOpts, arg.opts)
    /\ pc' = "helper"
    /\ UNCHANGED <<arg, utxos, amountSats, feeRate, sel>>
    /\ UNCHANGED transferVars

NextHelper == NewHelperCall

SpecHelper == InitHelper /\ [][NextHelper]_vars

\* the built-in mainnet configuration of a helper
MainnetDefaults(c) ==
    IF c = "aptos" THEN [aptosClient |-> AptosMainnetClient] ELSE HelperLiteral(c)

\* the configuration steps in the claimed order: the testnet defaults if the
\* client was created WithTestnet, the client-level options of the chain in the
\* order given, the options passed to NewHelper
ClaimedOrder ==
    (IF arg.testnet THEN <<WithTestnet(arg.chain)>> ELSE <<>>)
        \o SelectSeq(arg.chainOpts, LAMBDA o : o.pkg = arg.chain)
        \o arg.opts

\* the value the last step that assigns setting k gives it, the mainnet default
\* if no step assigns it
LastWins(k) ==
    LET steps   == ClaimedOrder
        setting == {i \in 1..Len(steps) : k \in DOMAIN steps[i].sets}
    IN  IF setting = {} THEN MainnetDefaults(arg.chain)[k]
        ELSE steps[CHOOSE i \in setting : \A j \in setting : j <= i].sets[k]

\* C20: NewHelper of every chain helper applies the built-in mainnet defaults,
\* then the testnet defaults (only if the client was created WithTestnet), then
\* the client-level options stored for that chain in the order given, then the
\* options passed directly to NewHelper; for each setting the last applied
\* option wins, so a direct option always overrides a client-level option and
\* the testnet default.
C20_NewHelperOptionOrder ==
    pc = "helper" =>
        /\ DOMAIN ret = DOMAIN MainnetDefaults(arg.chain)
        /\ \A k \in DOMAIN ret : ret[k] = LastWins(k)

(***************************************************************************)
(* How a Transfer that did not get its transaction onto the chain ends.    *)
(***************************************************************************)
\* responses with which a broadcast did not go through
BroadcastFailures == {"transport", "status", "garbled", "rpc_error", "rejected", "error"}

LastCallIsBroadcast == Len(calls) > 0 /\ calls[Len(calls)].kind = "broadcast"

\* the last call of the Transfer was a broadcast, made with the oracle's
\* signature, and it did not go through
SignedNotBroadcast == LastCallIsBroadcast /\ calls[Len(calls)].resp \in BroadcastFailures

\* the error outcomes the adapters reserve for a failed broadcast
BroadcastErrors ==
    {"broadcast", "broadcast failed (code)", "broadcast transaction", "send boc",
     "submit transaction", "execute transaction", "failed to submit transaction"}

\* C21: a Transfer that fails after the oracle has produced a signature (signed
\* but not broadcast) returns an error that is distinguishable from the error of
\* a Transfer that failed before or during signing: no adapter returns the same
\* error outcome for a broadcast failure and for a did-not-sign failure.
C21_BroadcastFailureIsDistinctError ==
    pc = "done" =>
        /\ SignedNotBroadcast =>
               result.status = "error" /\ result.err \in BroadcastErrors
        /\ (result.status = "error" /\ ~LastCallIsBroadcast) =>
               result.err \notin BroadcastErrors

(***************************************************************************)
(* Concurrent Transfers.  Two goroutines call Transfer of one starknet     *)
(* Helper, each for a wallet of its own.  A call's locals (wallet, nonce,  *)
(* calldata, result) live in its own frame: the variables hold one value   *)
(* per call.  The Helper and the Client behind it are the only values the  *)
(* two calls share.  Every external call is one step, and the steps of the *)
(* two calls interleave in every order.                                    *)
(***************************************************************************)
ConcCalls == {1, 2}

ConcWalletIDs == <<"wallet-a", "wallet-b">>

\* what Privy keeps for a wallet id
ConcWalletOf(id) ==
    [Address   |-> <<"0", "x", "4", "a", IF id = "wallet-a" THEN "1" ELSE "2">>,
     PublicKey |-> PubKeyHex]

ConcAmounts == {<<"5", "0", "0", "0", "0">>, <<"a", "b", "c">>}

\* each call pays a destination of its own
ConcDestinations == <<(<<"0", "x", "7", "b">>), (<<"0", "x", "7", "c">>)>>

ConcSignatures == {Hex0x(TestSigBytes), <<"0", "x", "a", "b", "c", "d", "e", "f">>}

ConcClient == [appID |-> "app", appSecret |-> "secret", baseURL |-> "https://api.privy.io"]

\* the Helpers NewHelper makes for a mainnet and for a testnet client
ConcHelpers ==
    {[client |-> ConcClient, rpcURL |-> "https://starknet-mainnet.public.blastapi.io",
      chainID |-> mainnetChainID, maxFee |-> defaultMaxFee,
      httpClient |-> "http.DefaultClient"],
     [client |-> ConcClient, rpcURL |-> "https://starknet-sepolia.public.blastapi.io",
      chainID |-> BigNat("SN_SEPOLIA"), maxFee |-> defaultMaxFee,
      httpClient |-> "http.DefaultClient"]}

InitConcurrent ==
    /\ pc = [i \in ConcCalls |-> "start"]
    /\ chain = "starknet"
    /\ helper \in ConcHelpers
    /\ arg = ConcWalletIDs
    /\ amountArg \in [ConcCalls -> ConcAmounts]
    /\ destination = ConcDestinations
    /\ calls = [i \in ConcCalls |-> <<>>]
    /\ wallet = [i \in ConcCalls |-> NoWallet]
    /\ result = [i \in ConcCalls |-> NoResult]
    /\ tx = [i \in ConcCalls |-> NoTx]
    /\ chainState = [i \in ConcCalls |-> NoState]
    /\ signIdx = 0
    /\ utxos = <<>>
    /\ amountSats = I64(0)
    /\ feeRate = I64(DefaultFeeRate)
    /\ sel = NoSelection
    /\ ret = NoRet

ConcCalled(i, kind, name, resp, sent, got) ==
    calls' = [calls EXCEPT ![i] = Append(@, [kind |-> kind, name |-> name, resp |-> resp,
                                             sent |-> sent, got |-> got])]

ConcFail(i, e) ==
    /\ result' = [result EXCEPT ![i] = [status |-> "error", err |-> e, txid |-> ""]]
    /\ pc' = [pc EXCEPT ![i] = "done"]

ConcReturn(i, txid) ==
    /\ result' = [result EXCEPT ![i] = [status |-> "ok", err |-> "", txid |-> txid]]
    /\ pc' = [pc EXCEPT ![i] = "done"]

ConcGoto(i, label) == pc' = [pc EXCEPT ![i] = label] /\ UNCHANGED result

\* the variables no step of a concurrent Transfer writes
ConcFrame == UNCHANGED <<chain, amountArg, destination, feeRate, utxos, amountSats, sel,
                         signIdx, arg, ret>>

\* big.Int.SetString(amount, 10) as the calldata takes it
ConcAmount(i) ==
    LET amt == BigSetString(amountArg[i])
    IN  [neg |-> amt.neg /\ amt.mag # Zero(WideLimbs), mag |-> amt.mag]

\* h.client.Wallets().Get, hexToBigInt(wallet.Address), amountBig.SetString
ConcGetWallet(i) ==
    /\ pc[i] = "start"
    /\ ConcFrame
    /\ UNCHANGED <<helper, tx, chainState>>
    /\ \E resp \in PrivyResponses :
        LET w == WalletsGet(resp, ConcWalletOf(arg[i]), <<>>)
        IN  /\ ConcCalled(i, "wallet", "privy.wallets.get", resp, [walletID |-> arg[i]],
                          [wallet |-> w])
            /\ IF PrivyFails(resp)
               THEN ConcFail(i, "get wallet") /\ UNCHANGED wallet
               ELSE /\ wallet' = [wallet EXCEPT ![i] = w]
                    /\ IF ~BigSetString(amountArg[i]).ok THEN ConcFail(i, "invalid amount")
                       ELSE ConcGoto(i, "state")

\* a Helper that keeps the nonce it fetched for the calls that come after
ConcGetNonceCached(i) ==
    /\ pc[i] = "state"
    /\ ConcFrame
    /\ UNCHANGED wallet
    /\ \E resp \in JsonRpcResponses, n \in StarkNonces :
        LET nonceHex == IF resp = "missing" THEN <<>> ELSE n
        IN  /\ ConcCalled(i, "chain", "starknet_getNonce", resp,
                          [address |-> wallet[i].Address], [nonce |-> nonceHex])
            /\ IF JsonRpcFails(resp)
               THEN ConcFail(i, "get nonce") /\ UNCHANGED <<chainState, tx, helper>>
               ELSE /\ chainState' = [chainState EXCEPT ![i] = [Nonce |-> hexToBigInt(nonceHex)]]
                    /\ helper' = [helper EXCEPT !.maxFee = hexToBigInt(nonceHex)]
                    /\ tx' = [tx EXCEPT ![i] =
                                 buildETHTransferCalldata(destination[i], ConcAmount(i))]
                    /\ ConcGoto(i, "sign")

\* h.getNonce, then buildETHTransferCalldata
ConcGetNonce(i) ==
    /\ pc[i] = "state"
    /\ ConcFrame
    /\ UNCHANGED <<helper, wallet>>
    /\ \E resp \in JsonRpcResponses, n \in StarkNonces :
        LET nonceHex == IF resp = "missing" THEN <<>> ELSE n
        IN  /\ ConcCalled(i, "chain", "starknet_getNonce", resp,
                          [address |-> wallet[i].Address], [nonce |-> nonceHex])
            /\ IF JsonRpcFails(resp)
               THEN ConcFail(i, "get nonce") /\ UNCHANGED <<chainState, tx>>
               ELSE /\ chainState' = [chainState EXCEPT ![i] = [Nonce |-> hexToBigInt(nonceHex)]]
                    /\ tx' = [tx EXCEPT ![i] =
                                 buildETHTransferCalldata(destination[i], ConcAmount(i))]
                    /\ ConcGoto(i, "sign")

\* the INVOKE V1 hash with h.maxFee and h.chainID, h.client.RawSign, r and s
ConcSign(i) ==
    /\ pc[i] = "sign"
    /\ ConcFrame
    /\ UNCHANGED <<helper, wallet, chainState>>
    /\ \E resp \in PrivyResponses, sig \in ConcSignatures :
        LET txHash == invokeTxHash(hexToBigInt(wallet[i].Address), tx[i], helper.maxFee,
                                   helper.chainID, chainState[i].Nonce)
            sigHex == PadSigHex(TrimPrefix0x(RawSignSignature(resp, sig)))
        IN  /\ ConcCalled(i, "oracle", "privy.raw_sign", resp,
                          [walletID |-> arg[i], hash |-> txHash],
                          [signature |-> RawSignSignature(resp, sig)])
            /\ IF PrivyFails(resp) THEN ConcFail(i, "sign transaction") /\ UNCHANGED tx
               ELSE /\ tx' = [tx EXCEPT ![i] =
                                 invokeTransaction(wallet[i].Address, tx[i], helper.maxFee,
                                                   chainState[i].Nonce,
                                                   <<"0", "x">> \o SubSeq(sigHex, 1, 64),
                                                   <<"0", "x">> \o SubSeq(sigHex, 65, 128))]
                    /\ ConcGoto(i, "broadcast")

\* h.addInvokeTransaction
ConcAddInvokeTransaction(i) ==
    /\ pc[i] = "broadcast"
    /\ ConcFrame
    /\ UNCHANGED <<helper, wallet, chainState, tx>>
    /\ \E resp \in JsonRpcResponses :
        LET hash == IF resp = "missing" THEN "" ELSE "0xstarkhash"
        IN  /\ ConcCalled(i, "broadcast", "starknet_addInvokeTransaction", resp,
                          [raw |-> tx[i]], [transaction_hash |-> hash])
            /\ IF JsonRpcFails(resp) THEN ConcFail(i, "submit transaction")
               ELSE ConcReturn(i, hash)

NextConcurrent ==
    \E i \in ConcCalls :
        \/ ConcGetWallet(i)
        \/ ConcGetNonce(i)
        \/ ConcSign(i)
        \/ ConcAddInvokeTransaction(i)

SpecConcurrent == InitConcurrent /\ [][NextConcurrent]_vars

\* what a Transfer run alone returns for these arguments when it gets the
\* responses of log, and what it has then sent to the signing oracle and to the node
OwnResult(log) ==
    LET last == log[Len(log)]
    IN  IF last.kind = "wallet"
        THEN [status |-> "error", txid |-> "",
              err |-> IF PrivyFails(last.resp) THEN "get wallet" ELSE "invalid amount"]
        ELSE IF last.kind = "chain"
        THEN [status |-> "error", txid |-> "", err |-> "get nonce"]
        ELSE IF last.kind = "oracle"
        THEN [status |-> "error", txid |-> "", err |-> "sign transaction"]
        ELSE IF JsonRpcFails(last.resp)
        THEN [status |-> "error", txid |-> "", err |-> "submit transaction"]
        ELSE [status |-> "ok", err |-> "", txid |-> last.got.transaction_hash]

OwnCalldata(i) == buildETHTransferCalldata(destination[i], ConcAmount(i))

OwnHash(i, h) ==
    invokeTxHash(hexToBigInt(calls[i][1].got.wallet.Address), OwnCalldata(i), h.maxFee,
                 h.chainID, hexToBigInt(calls[i][2].got.nonce))

OwnPayload(i, h) ==
    LET sigHex == PadSigHex(TrimPrefix0x(calls[i][3].got.signature))
    IN  invokeTransaction(calls[i][1].got.wallet.Address, OwnCalldata(i), h.maxFee,
                          hexToBigInt(calls[i][2].got.nonce),
                          <<"0", "x">> \o SubSeq(sigHex, 1, 64),
                          <<"0", "x">> \o SubSeq(sigHex, 65, 128))

\* call i sent and returned what its own arguments and responses determine
OwnArgumentsAndResponsesOnly(i, h) ==
    /\ \A k \in 1..Len(calls[i]) :
        /\ calls[i][k].kind = "wallet" => calls[i][k].sent = [walletID |-> arg[i]]
        /\ calls[i][k].kind = "oracle" =>
               calls[i][k].sent = [walletID |-> arg[i], hash |-> OwnHash(i, h)]
        /\ calls[i][k].kind = "broadcast" => calls[i][k].sent = [raw |-> OwnPayload(i, h)]
    /\ pc[i] = "done" => result[i] = OwnResult(calls[i])
    /\ pc[i] # "done" => result[i] = NoResult

\* C22: concurrent Transfers on one Helper for different wallets never change a
\* field of the Helper or of its Client, and in every interleaving each call
\* sends to the oracle and to the node, and returns, exactly what its own
\* arguments and the responses to its own requests determine.
C22_ConcurrentTransfersIndependent ==
    /\ [][helper' = helper]_vars
    /\ [](\E h \in ConcHelpers :
            helper = h /\ \A i \in ConcCalls : OwnArgumentsAndResponsesOnly(i, h))

\* both calls ran to the end side by side and submitted different transactions
C22_Witness ==
    /\ \A i \in ConcCalls : pc[i] = "done" /\ result[i].status = "ok"
    /\ calls[1][4].sent # calls[2][4].sent

SuiSerializedSig(k) == calls[k].sent.raw.signatures[1].of

\* C23: the serialized signature Sui Transfer passes to
\* sui_executeTransactionBlock is exactly 97 bytes long: the flag byte 0x00,
\* 64 signature bytes, 32 public-key bytes.
C23_SuiSerializedSignatureIs97Bytes ==
    \A k \in 1..Len(calls) :
        (chain = "sui" /\ calls[k].kind = "broadcast") =>
            /\ Len(SuiSerializedSig(k)) = 97
            /\ SuiSerializedSig(k)[1] = 0

(***************************************************************************)
(* Webhooks: NewWebhookHandler, WithTolerance, OnEvent, HandleRequest.     *)
(* arg holds the WebhookHandler as the program set it up, ret the request  *)
(* handled, what HandleRequest returned for it and the handlers it called, *)
(* in order.  HandleRequest keeps nothing from one request to the next, so *)
(* a behaviour handles one request.                                        *)
(* An HMAC is kept as a term over its key and message.  The signature      *)
(* header is kept as the list strings.Split gives, each part either        *)
(* without a comma or a version and a signature text.                      *)
(***************************************************************************)
MaxHandlers == 2

DefaultWebhookTolerance == 300

\* time.Now().Unix() when the request is handled
WebhookNow == 1700000000

WebhookEventTypes == {"user.created", "wallet.created"}

HmacSha256(key, msg) == [alg |-> "hmac-sha256", key |-> key, msg |-> msg]

\* the hex text of an HMAC: 64 hex digits, which are base64 text as well
HexOfMac(b) == [encoding |-> "hex", of |-> b]

WebhookSecret == "test-secret"

WebhookBodies ==
    {[json |-> TRUE, type |-> "user.created"], [json |-> TRUE, type |-> "wallet.created"],
     [json |-> TRUE, type |-> "mfa.enabled"], [json |-> FALSE, type |-> ""]}

\* svix-timestamp values: now, 300 and 301 seconds ago, a minute ahead,
\* math.MinInt64, no number, none
WebhookTimestamps ==
    {<<"1", "7", "0", "0", "0", "0", "0", "0", "0", "0">>,
     <<"1", "6", "9", "9", "9", "9", "9", "7", "0", "0">>,
     <<"1", "6", "9", "9", "9", "9", "9", "6", "9", "9">>,
     <<"1", "7", "0", "0", "0", "0", "0", "0", "6", "0">>,
     MinInt64Text,
     <<"a", "b", "c">>,
     <<>>}

WebhookIDs == {"msg_1", ""}

\* svix-signature values for a request: the base64 and the hex text of the
\* HMAC under version v1, the HMAC of another key, the right HMAC under
\* version v2, a part without a comma, a wrong part before the right one, none
WebhookSignatures(id, ts, body) ==
    LET good == HmacSha256(WebhookSecret, <<id, ts, body>>)
        bad  == HmacSha256("other-secret", <<id, ts, body>>)
    IN  {<<[comma |-> TRUE, version |-> "v1", sig |-> Base64(good)]>>,
         <<[comma |-> TRUE, version |-> "v1", sig |-> HexOfMac(good)]>>,
         <<[comma |-> TRUE, version |-> "v1", sig |-> Base64(bad)]>>,
         <<[comma |-> TRUE, version |-> "v2", sig |-> Base64(good)]>>,
         <<[comma |-> FALSE, version |-> "", sig |-> NotBase64]>>,
         <<[comma |-> TRUE, version |-> "v1", sig |-> NotBase64],
           [comma |-> TRUE, version |-> "v1", sig |-> Base64(good)]>>,
         <<>>}

WebhookRequests ==
    UNION {{[id |-> id, timestamp |-> ts, body |-> body, signature |-> s] :
                s \in WebhookSignatures(id, ts, body)} :
           <<id, ts, body>> \in WebhookIDs \X WebhookTimestamps \X WebhookBodies}

NewWebhookHandler(signingSecret) ==
    [signingSecret    |-> signingSecret,
     toleranceSeconds |-> I64(DefaultWebhookTolerance),
     handlers         |-> [t \in WebhookEventTypes |-> <<>>]]

NoRequest == [none |-> TRUE]

InitWebhook ==
    /\ pc = "webhook"
    /\ arg = NewWebhookHandler(WebhookSecret)
    /\ ret = [request |-> NoRequest, err |-> "", invoked |-> <<>>]
    /\ utxos = <<>>
    /\ amountSats = I64(0)
    /\ feeRate = I64(DefaultFeeRate)
    /\ sel = NoSelection
    /\ NoTransfer

RegisteredCount(h) ==
    Len(h.handlers["user.created"]) + Len(h.handlers["wallet.created"])

\* h.handlers[eventType] = append(h.handlers[eventType], handler); the
\* handlers are numbered in the order of their registration
OnEvent ==
    /\ pc = "webhook"
    /\ RegisteredCount(arg) < MaxHandlers
    /\ \E t \in WebhookEventTypes :
        arg' = [arg EXCEPT !.handlers[t] = Append(@, RegisteredCount(arg) + 1)]
    /\ UNCHANGED <<pc, ret, utxos, amountSats, feeRate, sel>>
    /\ UNCHANGED transferVars

WithTolerance ==
    /\ pc = "webhook"
    /\ \E seconds \in {0, 300} : arg' = [arg EXCEPT !.toleranceSeconds = I64(seconds)]
    /\ UNCHANGED <<pc, ret, utxos, amountSats, feeRate, sel>>
    /\ UNCHANGED transferVars

\* the loop over the parts of the signature header
verifySignature(h, webhookID, timestamp, body, signatureHeader) ==
    LET expectedSig == HmacSha256(h.signingSecret, <<webhookID, timestamp, body>>)
    IN  \E k \in 1..Len(signatureHeader) :
            LET part == signatureHeader[k]
            IN  /\ part.comma
                /\ part.version = "v1"
                /\ part.sig.encoding \in {"base64", "hex"}
                /\ \/ part.sig = Base64(expectedSig)
                   \/ part.sig = HexOfMac(expectedSig)

\* the error VerifyAndParse returns, "" for none
VerifyAndParse(h, r) ==
    LET ts == ParseInt(r.timestamp)
    IN  IF r.signature = <<>> \/ r.timestamp = <<>> \/ r.id = ""
        THEN "ErrMissingWebhookHeaders"
        ELSE IF ts.err THEN "invalid webhook timestamp"
        ELSE IF Lt(h.toleranceSeconds, Sub(I64(WebhookNow), ts.val))
        THEN "ErrWebhookTimestampExpired"
        ELSE IF ~verifySignature(h, r.id, r.timestamp, r.body, r.signature)
        THEN "ErrInvalidWebhookSignature"
        ELSE IF ~r.body.json THEN "failed to parse webhook event"
        ELSE ""

\* VerifyAndParse, then every handler of h.handlers[event.Type] in order
HandleRequest ==
    /\ pc = "webhook"
    /\ pc' = "handled"
    /\ \E r \in WebhookRequests :
        LET err == VerifyAndParse(arg, r)
        IN  ret' = [request |-> r, err |-> err,
                    invoked |-> IF err = "" /\ r.body.type \in DOMAIN arg.handlers
                                THEN arg.handlers[r.body.type] ELSE <<>>]
    /\ UNCHANGED <<arg, utxos, amountSats, feeRate, sel>>
    /\ UNCHANGED transferVars

NextWebhook == OnEvent \/ WithTolerance \/ HandleRequest

SpecWebhook == InitWebhook /\ [][NextWebhook]_vars

\* the timestamp is a number and not older than the tolerance: it is at
\* least now - tolerance, a difference that stays far inside int64 for the
\* tolerances of WithTolerance here
TimestampWithinTolerance(h, r) ==
    /\ ~ParseInt(r.timestamp).err
    /\ Ge(ParseInt(r.timestamp).val, Sub(I64(WebhookNow), h.toleranceSeconds))

PassedAllChecks(h, r) ==
    /\ r.signature # <<>> /\ r.timestamp # <<>> /\ r.id # ""
    /\ TimestampWithinTolerance(h, r)
    /\ verifySignature(h, r.id, r.timestamp, r.body, r.signature)

\* C24: HandleRequest calls handlers only for a request with the three svix
\* headers, a timestamp not older than the tolerance and a valid HMAC
\* signature; when it returns an error it calls none, and when it succeeds it
\* calls the handlers registered for the event's type, each once, in the
\* order of registration, and no other.
C24_HandlersOnlyForVerifiedRequests ==
    ret.request # NoRequest =>
        /\ ret.invoked # <<>> => PassedAllChecks(arg, ret.request)
        /\ ret.err # "" => ret.invoked = <<>>
        /\ ret.err = "" =>
               ret.invoked = IF ret.request.body.type \in DOMAIN arg.handlers
                             THEN arg.handlers[ret.request.body.type] ELSE <<>>

(***************************************************************************)
(* near: the bytes serializeTransaction writes, called on its own.  The    *)
(* account names are byte strings here; the public key has the 32 bytes    *)
(* Transfer checks for before it calls serializeTransaction.               *)
(***************************************************************************)
borshWriteU32(v) == [k \in 1..4 |-> (v \div (256 ^ (k - 1))) % 256]

\* binary.LittleEndian.PutUint64 of a 64-bit value kept in limbs
borshWriteU64(v) ==
    [k \in 1..8 |-> IF k % 2 = 1 THEN v[(k + 1) \div 2] % 256 ELSE v[k \div 2] \div 256]

borshWriteString(s) == borshWriteU32(Len(s)) \o s

\* the buffer serializeTransaction returns, field by field
serializeTransactionBytes(signerID, pubKey, nonce, receiverID, blockHash, deposit) ==
    LET t == serializeTransaction(signerID, pubKey, nonce, receiverID, blockHash, deposit)
    IN  borshWriteString(t.signerID) \o <<t.keyType>> \o t.publicKey
            \o borshWriteU64(t.nonce) \o borshWriteString(t.receiverID) \o t.blockHash
            \o borshWriteU32(Len(t.actions)) \o <<t.actions[1].action>>
            \o t.actions[1].deposit

BorshAccounts == {<<>>, <<97>>, <<97, 46, 110, 101, 97, 114>>}

BorshNonces == {I64(0), I64(42), FromInt(65536 * 3 + 258, Int64Limbs), Not(I64(0))}

BorshBlockHashes == {<<1, 2, 3>>, [i \in 1..32 |-> i], [i \in 1..33 |-> 100 + i]}

\* deposits: 0, 1, 256, 10^24 yoctoNEAR, 2^96 - 1
BorshDeposits ==
    {BigSmall(0), BigSmall(1), BigSmall(256),
     BigNat(<<0, 41216, 52461, 7118, 54210, 0>>),
     BigNat([i \in 1..WideLimbs |-> LimbBase - 1])}

InitBorsh ==
    /\ pc = "serialize"
    /\ arg \in [signerID : BorshAccounts, pubKey : {decodeHex(Ed25519KeyHex).bytes},
                nonce : BorshNonces, receiverID : BorshAccounts,
                blockHash : BorshBlockHashes, deposit : BorshDeposits]
    /\ ret = NoRet
    /\ utxos = <<>>
    /\ amountSats = I64(0)
    /\ feeRate = I64(DefaultFeeRate)
    /\ sel = NoSelection
    /\ NoTransfer

SerializeTransactionCall ==
    /\ pc = "serialize"
    /\ pc' = "done"
    /\ ret' = serializeTransactionBytes(arg.signerID, arg.pubKey, arg.nonce, arg.receiverID,
                                        arg.blockHash, arg.deposit)
    /\ UNCHANGED <<arg, utxos, amountSats, feeRate, sel>>
    /\ UNCHANGED transferVars

SpecBorsh == InitBorsh /\ [][SerializeTransactionCall]_vars

\* the value of little-endian bytes, in limbs
LittleEndianLimbs(b) == [i \in 1..(Len(b) \div 2) |-> b[2 * i - 1] + 256 * b[2 * i]]

\* C25: serializeTransaction writes the u32-LE length of signerId and its
\* bytes, the key type 0, the 32 public-key bytes, the nonce as 8 bytes
\* little-endian, the u32-LE length of receiverId and its bytes, 32 block-hash
\* bytes, the action count 1 as u32-LE, the action tag 3 and the deposit as 16
\* bytes little-endian: len(signerId) + len(receiverId) + 102 bytes, whose
\* last 16 are the deposit for 0 <= deposit < 2^128.
C25_NearBorshLayout ==
    pc = "done" =>
        LET s == Len(arg.signerID)
            r == Len(arg.receiverID)
            f(from, n) == SubSeq(ret, from + 1, from + n)
        IN  /\ Len(ret) = s + r + 102
            /\ f(0, 4) = <<s, 0, 0, 0>>
            /\ f(4, s) = arg.signerID
            /\ f(4 + s, 1) = <<0>>
            /\ f(5 + s, 32) = arg.pubKey
            /\ LittleEndianLimbs(f(37 + s, 8)) = arg.nonce
            /\ f(45 + s, 4) = <<r, 0, 0, 0>>
            /\ f(49 + s, r) = arg.receiverID
            /\ Len(arg.blockHash) = 32 => f(49 + s + r, 32) = arg.blockHash
            /\ f(81 + s + r, 4) = <<1, 0, 0, 0>>
            /\ f(85 + s + r, 1) = <<3>>
            /\ LittleEndianLimbs(f(86 + s + r, 16)) = arg.deposit.mag \o <<0, 0>>

\* a deposit of 10^24 between two named accounts was serialized
C25_Witness ==
    /\ pc = "done"
    /\ Len(arg.signerID) = 6 /\ Len(arg.receiverID) = 1
    /\ Len(ret) = 109
    /\ arg.deposit.mag[5] > 0

\* the chain h(h(...h(h(0, e1), e2)..., en), n) over the felts of a list: the
\* elements are the list's and the count hashed last is the list's length
IsHashChainOver(h, felts) == h.elements = felts /\ h.len = Len(felts)

\* the INVOKE tuple of a starknet run whose calldata hash is calldataHash
InvokeTuple(calldataHash, maxFeeFelt, nonceFelt) ==
    <<SetBigInt(invokePrefix), SetBigInt(BigSmall(1)),
      SetBigInt(hexToBigInt(wallet.Address)), SetBigInt(BigSmall(0)),
      SetBigInt(HashAsBig(calldataHash)), maxFeeFelt, SetBigInt(mainnetChainID), nonceFelt>>

\* C26: computeHashOnElements is the left fold from 0 over the elements with
\* their count hashed last, and StarkNet Transfer signs that hash of the tuple
\* (invokePrefix, 1, sender, 0, calldataHash, maxFee, chainId, nonce), where
\* calldataHash is that hash of the calldata list submitted afterwards and
\* maxFee and nonce are the values submitted.
C26_StarkInvokeHashTuple ==
    \A k \in 1..Len(calls) :
        (chain = "starknet" /\ calls[k].kind = "broadcast") =>
            LET signed   == calls[k - 1].sent.hash
                sent     == calls[k].sent.raw
                calldata == [i \in 1..Len(sent.calldata) |-> FeltOfText(sent.calldata[i]).felt]
            IN  \E calldataHash \in {signed.elements[5].of} :
                    /\ IsHashChainOver(calldataHash, calldata)
                    /\ IsHashChainOver(signed,
                                       InvokeTuple(calldataHash, FeltOfText(sent.max_fee).felt,
                                                   FeltOfText(sent.nonce).felt))

(***************************************************************************)
(* ton: buildSigningMessage called on its own, with int64 arguments inside *)
(* and outside the range of a uint32                                       *)
(***************************************************************************)
\* 0, 5, the v4r2 wallet id, 2^32 + 7, -1, math.MaxInt64
TonInt64s ==
    {I64(0), I64(5), I64(TonWalletID), <<7, 0, 1, 0>>, Neg(I64(1)), MaxInt64}

TonInternalMessages == {<<>>, <<1, 2>>, <<255, 0, 7>>}

InitTon ==
    /\ pc = "buildSigningMessage"
    /\ arg \in [walletID : {I64(TonWalletID), Neg(I64(1))}, seqno : TonInt64s,
                validUntil : TonInt64s, internalMsg : TonInternalMessages]
    /\ ret = NoRet
    /\ utxos = <<>>
    /\ amountSats = I64(0)
    /\ feeRate = I64(DefaultFeeRate)
    /\ sel = NoSelection
    /\ NoTransfer

BuildSigningMessageCall ==
    /\ pc = "buildSigningMessage"
    /\ pc' = "done"
    /\ ret' = buildSigningMessage(arg.walletID, arg.seqno, arg.validUntil, arg.internalMsg)
    /\ UNCHANGED <<arg, utxos, amountSats, feeRate, sel>>
    /\ UNCHANGED transferVars

SpecTon == InitTon /\ [][BuildSigningMessageCall]_vars

\* the low 32 bits of an int64 as the value of four big-endian bytes
IsBigEndianMod32(b, v) ==
    /\ Len(b) = 4
    /\ 256 * b[3] + b[4] = v[1]
    /\ 256 * b[1] + b[2] = v[2]

\* C27: buildSigningMessage returns 14 + len(internalMsg) bytes: walletId,
\* validUntil and seqno, each as the four big-endian bytes of its value modulo
\* 2^32, then the op byte 0, the send-mode byte 3 and internalMsg unchanged.
C27_TonSigningMessageLayout ==
    pc = "done" =>
        /\ Len(ret) = 14 + Len(arg.internalMsg)
        /\ IsBigEndianMod32(SubSeq(ret, 1, 4), arg.walletID)
        /\ IsBigEndianMod32(SubSeq(ret, 5, 8), arg.validUntil)
        /\ IsBigEndianMod32(SubSeq(ret, 9, 12), arg.seqno)
        /\ ret[13] = 0
        /\ ret[14] = 3
        /\ SubSeq(ret, 15, Len(ret)) = arg.internalMsg

\* a seqno above 2^32 and a negative validUntil were written
C27_Witness ==
    /\ pc = "done"
    /\ arg.seqno = <<7, 0, 1, 0>>
    /\ arg.validUntil = Neg(I64(1))
    /\ SubSeq(ret, 5, 12) = <<255, 255, 255, 255, 0, 0, 0, 7>>
    /\ Len(ret) = 17

RECURSIVE SumOutputs(_, _)
SumOutputs(outs, n) ==
    IF n = 0 THEN Zero(WideLimbs) ELSE Add(SumOutputs(outs, n - 1), W(outs[n].Value))

\* totalInput minus the sum of the outputs, exactly
FeePaid == Sub(W(sel.totalInput), SumOutputs(tx.TxOut, Len(tx.TxOut)))

\* C28: a Bitcoin transaction built by Transfer conserves value: its outputs sum
\* to no more than totalInput of the selected UTXOs, and the fee paid,
\* totalInput minus the outputs, is at least the estimated fee and at most the
\* estimated fee plus 546 sats.
C28_BitcoinConservesValue ==
    BtcBuilt =>
        /\ Ge(W(sel.totalInput), SumOutputs(tx.TxOut, Len(tx.TxOut)))
        /\ Ge(FeePaid, W(sel.fee))
        /\ Ge(Add(W(sel.fee), W(I64(DustThreshold))), FeePaid)

\* the amount string denotes an integer that is zero or negative
NonPositiveAmount(a) ==
    /\ BigSetString(a).ok
    /\ BigSetString(a).neg \/ BigSetString(a).mag = Zero(WideLimbs)

SignedAmountChains == {"bitcoin", "tron", "near", "starknet"}

\* C29: in Bitcoin, Tron, NEAR and StarkNet Transfer an amount string that
\* denotes zero or a negative value is rejected before the oracle is called:
\* no signing and no broadcast call is made for it, and the call ends in an
\* error.
C29_NonPositiveAmountNeverSigned ==
    (chain \in SignedAmountChains /\ NonPositiveAmount(amountArg)) =>
        /\ \A k \in 1..Len(calls) : calls[k].kind \notin {"oracle", "broadcast"}
        /\ pc = "done" => result.status = "error"

(***************************************************************************)
(* Auth: Client.Auth, RefreshJWKS, getPublicKey as VerifyToken reaches it  *)
(* for a well-formed RS256 token.  arg holds the clock, the AuthServices   *)
(* the program keeps in variables, each with its jwksCache, and the last   *)
(* successful RefreshJWKS on a service of the client; ret holds the last   *)
(* call, whether the key it asked for was freshly fetched before it, and   *)
(* the number of JWKS fetches it made.  The clock counts half hours.  A    *)
(* service used in an expression client.Auth().F(...) is reached by        *)
(* nothing once F has returned.                                            *)
(***************************************************************************)
MaxServices == 1

MaxClock == 3

\* jwksCacheTTL, one hour
JwksCacheTTL == 2

\* the key sets the JWKS endpoint serves, before and after a key rotation
JwksSets == {{"kid1"}, {"kid1", "kid2"}}

TokenKids == {"kid1", "kid2"}

\* the zero time.Time of a new cache lies before every reading of the clock
newAuthService == [keys |-> {}, expiresAt |-> 0]

NeverRefreshed == [ok |-> FALSE, keys |-> {}, at |-> 0]

InitAuth ==
    /\ pc = "auth"
    /\ arg = [now |-> 1, services |-> <<>>, refreshed |-> NeverRefreshed]
    /\ ret = [op |-> "none", kid |-> "", fresh |-> FALSE, fetches |-> 0, err |-> ""]
    /\ utxos = <<>>
    /\ amountSats = I64(0)
    /\ feeRate = I64(DefaultFeeRate)
    /\ sel = NoSelection
    /\ NoTransfer

\* GetJWKS answered resp with the key set served; the cache after RefreshJWKS
RefreshJWKS(cache, resp, served, now) ==
    IF resp = "ok"
    THEN [cache |-> [keys |-> served, expiresAt |-> now + JwksCacheTTL], err |-> "",
          fetches |-> 1]
    ELSE [cache |-> cache, err |-> "failed to fetch JWKS", fetches |-> 1]

\* a key of an unexpired cache is returned at once; otherwise one RefreshJWKS
\* and a second lookup
getPublicKey(cache, kid, resp, served, now) ==
    IF now < cache.expiresAt /\ kid \in cache.keys
    THEN [cache |-> cache, err |-> "", fetches |-> 0]
    ELSE LET r == RefreshJWKS(cache, resp, served, now)
         IN  IF r.err # "" THEN r
             ELSE [cache |-> r.cache, fetches |-> r.fetches,
                   err |-> IF kid \in r.cache.keys THEN "" ELSE "ErrKeyNotFound"]

\* the last successful RefreshJWKS after one that returned r
Refreshed(r, served) ==
    IF r.err = "" THEN [ok |-> TRUE, keys |-> served, at |-> arg.now] ELSE arg.refreshed

\* the last successful RefreshJWKS fetched the key and is less than one hour old
FreshlyRefreshed(kid) ==
    /\ arg.refreshed.ok
    /\ kid \in arg.refreshed.keys
    /\ arg.now < arg.refreshed.at + JwksCacheTTL

AuthFrame ==
    /\ UNCHANGED <<pc, utxos, amountSats, feeRate, sel>>
    /\ UNCHANGED transferVars

\* auth := client.Auth(), kept by the program
Auth ==
    /\ pc = "auth"
    /\ Len(arg.services) < MaxServices
    /\ arg' = [arg EXCEPT !.services = Append(@, newAuthService)]
    /\ UNCHANGED ret
    /\ AuthFrame

\* client.Auth().RefreshJWKS(ctx)
ClientAuthRefreshJWKS ==
    /\ pc = "auth"
    /\ \E resp \in {"ok", "error"}, served \in JwksSets :
        LET r == RefreshJWKS(newAuthService, resp, served, arg.now)
        IN  /\ arg' = [arg EXCEPT !.refreshed = Refreshed(r, served)]
            /\ ret' = [op |-> "client.Auth().RefreshJWKS", kid |-> "", fresh |-> FALSE,
                       fetches |-> r.fetches, err |-> r.err]
    /\ AuthFrame

\* client.Auth().VerifyToken(ctx, token) for a token signed with key kid
ClientAuthVerifyToken ==
    /\ pc = "auth"
    /\ \E kid \in TokenKids, resp \in {"ok", "error"}, served \in JwksSets :
        LET r == getPublicKey(newAuthService, kid, resp, served, arg.now)
        IN  /\ arg' = [arg EXCEPT !.refreshed =
                          IF r.fetches = 1 THEN Refreshed(r, served) ELSE @]
            /\ ret' = [op |-> "client.Auth().VerifyToken", kid |-> kid,
                       fresh |-> FreshlyRefreshed(kid), fetches |-> r.fetches,
                       err |-> r.err]
    /\ AuthFrame

\* auth.RefreshJWKS(ctx) on a service the program kept
KeptRefreshJWKS ==
    /\ pc = "auth"
    /\ \E i \in 1..Len(arg.services), resp \in {"ok", "error"}, served \in JwksSets :
        LET r == RefreshJWKS(arg.services[i], resp, served, arg.now)
        IN  /\ arg' = [arg EXCEPT !.services[i] = r.cache,
                                  !.refreshed = Refreshed(r, served)]
            /\ ret' = [op |-> "auth.RefreshJWKS", kid |-> "", fresh |-> FALSE,
                       fetches |-> r.fetches, err |-> r.err]
    /\ AuthFrame

\* auth.VerifyToken(ctx, token) on a service the program kept
KeptVerifyToken ==
    /\ pc = "auth"
    /\ \E i \in 1..Len(arg.services), kid \in TokenKids, resp \in {"ok", "error"},
          served \in JwksSets :
        LET r == getPublicKey(arg.services[i], kid, resp, served, arg.now)
        IN  /\ arg' = [arg EXCEPT !.services[i] = r.cache,
                                  !.refreshed =
                                      IF r.fetches = 1 THEN Refreshed(r, served) ELSE @]
            /\ ret' = [op |-> "auth.VerifyToken", kid |-> kid,
                       fresh |-> FreshlyRefreshed(kid), fetches |-> r.fetches,
                       err |-> r.err]
    /\ AuthFrame

\* half an hour passes
ClockTick ==
    /\ pc = "auth"
    /\ arg.now < MaxClock
    /\ arg' = [arg EXCEPT !.now = @ + 1]
    /\ UNCHANGED ret
    /\ AuthFrame

NextAuth ==
    \/ Auth
    \/ ClientAuthRefreshJWKS
    \/ ClientAuthVerifyToken
    \/ KeptRefreshJWKS
    \/ KeptVerifyToken
    \/ ClockTick

SpecAuth == InitAuth /\ [][NextAuth]_vars

\* C30: the JWKS key cache persists across uses of client.Auth(): after a
\* successful client.Auth().RefreshJWKS, a later client.Auth().VerifyToken for
\* a key id of the fetched set within the one-hour TTL uses the cached key and
\* fetches nothing; no verification fetches more than once.
C30_JwksCachePersistsAcrossAuthCalls ==
    ret.op \in {"client.Auth().VerifyToken", "auth.VerifyToken"} =>
        /\ ret.fresh => ret.fetches = 0
        /\ ret.fetches <= 1

====
